---------------------------- MODULE Spec2Model ----------------------------
(***************************************************************************)
(* A model of the sweep bot: the planning stages of CodeGenBot, the branch *)
(* and commit operations of GithubBot / SweepBot (src/core/sweep_bot.py)   *)
(* and the webhook gateway (src/api.py).                                   *)
(*                                                                         *)
(* Text is a sequence of one-character strings, so that split, strip and   *)
(* lower are computed and not assumed.                                     *)
(***************************************************************************)
EXTENDS Integers, Sequences, FiniteSets, TLC

VARIABLES
    \* ---- the chat session (ChatGPT.messages), shared by the bot's stages
    messages,              \* ordered Message log: [role, key, content]
    \* ---- CodeGenBot.get_files_to_change / generate_pull_request
    stage,                 \* "idle" | "files" | "pr": the stage being run
    ppc,                   \* "run" | "done"
    count,                 \* attempts of the stage's loop completed so far
    file_change_requests,  \* the local list of get_files_to_change
    planResult,            \* what the stage returned (NoValue before)
    planError,             \* "none" | "StageFailure" | "RegexMatchError" | "ProviderError"
    chatTurns,             \* chat() calls issued by the running stage
    replies,               \* history: the last reply consumed by the stage and
                           \* whether every reply so far was unparseable
    \* ---- GithubBot.create_branch, one call per caller, and the forge's refs
    refs,                  \* suffix n -> sha of refs/heads/{branch}_{n}
                           \* (n = 0: refs/heads/{branch}), 0 when there is none
    refs0,                 \* history: refs when the calls began
    tip,                   \* sha of the default branch's tip
    callers,               \* the callers running create_branch
    bpc,                   \* per caller: "idle" | "get_branch" | "create" |
                           \* "retry" | "returned" | "raised"
    base,                  \* per caller: base_branch.commit.sha
    bi,                    \* per caller: the loop variable i
    bret,                  \* per caller: the suffix of the name returned
    battempts,             \* per caller: create_git_ref calls made
    berr,                  \* per caller: the attempt whose error was raised
    btried,                \* history, per caller: the suffixes it asked the
                           \* forge to create, in order
    \* ---- SweepBot.change_files_in_github and the forge's files
    branchExists,          \* the working branch exists on the forge
    branchFiles,           \* filename -> [sha, body] on the working branch,
                           \* sha 0 when the file is not there
    defaultFiles,          \* filename -> [sha, body] on the default branch
    nextSha,               \* the sha the forge gives its next commit of a file
    requests,              \* file_change_requests, the argument (kinds mutable)
    requests0,             \* history: the argument as it was passed
    idx,                   \* position of the for loop in requests
    cpc,                   \* position in change_files_in_github
    acount,                \* count of the running create_file / modify_file
    file_change,           \* the FileChange last authored
    contents,              \* contents of change_files_in_github: [sha, body]
    mcontents,             \* contents of modify_file: the body it authors on
    file_change_paths,     \* self.file_change_paths
    calls,                 \* history: the forge calls made, per request
    authored,              \* history: the FileChanges returned, per request
    existed,               \* history: per request, whether its file was on
                           \* the branch when the request was taken up
    cerror,                \* the error that left change_files_in_github
    \* ---- the webhook gateway (api.py) and the forge's labels
    hreq,                  \* the webhook last received: headers and body
    response,              \* the answer to it: [status, body]
    spawned,               \* the background jobs it dispatched, in order
    analytics,             \* the analytics events it captured, in order
    repoLabels,            \* names of the repository's labels
    issueLabels,           \* issue number -> names of the issue's labels
    labelCreates,          \* history: repo.create_label calls so far
    \* ---- another invocation of change_files_in_github on the same branch
    otherWrites,           \* commits it has made to the working branch
    \* ---- history of the chat session across one authoring call
    messages0,             \* the chat log when create_file/modify_file was entered
    \* ---- history of the chat session across one planning stage
    history0,              \* the chat log when the stage was entered
    \* ---- cot_retrieval (sweep_bot.py)
    rpc,                   \* position: idle, ask, loop, returned, failed
    cot_response,          \* its local response: reply text or decoded call
    is_function_call,      \* its local is_function_call
    retry,                 \* iterations of range(3) completed
    rerror,                \* the exception that left it
    rfiles,                \* the default branch: path -> [sha, body]
    decoded,               \* history: each json.loads(response) it ran
    cturns                 \* history: chat() calls that returned

planVars == <<stage, ppc, count, file_change_requests, planResult, planError,
              chatTurns, replies, history0>>

branchVars == <<refs, refs0, tip, callers, bpc, base, bi, bret, battempts, berr,
                btried>>

forgeFileVars == <<branchExists, branchFiles, defaultFiles, nextSha>>

commitVars == <<forgeFileVars, requests, requests0, idx, cpc, acount, file_change, contents,
                mcontents, file_change_paths, calls, authored, existed, cerror,
                messages0>>

hookVars == <<hreq, response, spawned, analytics, repoLabels, issueLabels,
              labelCreates>>

writerVars == <<otherWrites>>

retrievalVars == <<rpc, cot_response, is_function_call, retry, rerror, rfiles,
                   decoded, cturns>>

vars == <<messages, planVars, branchVars, commitVars, hookVars, writerVars,
          retrievalVars>>

\* what the actions of one component leave alone
notPlanVars == <<branchVars, commitVars, hookVars, writerVars, retrievalVars>>
notBranchVars == <<messages, planVars, commitVars, hookVars, writerVars, retrievalVars>>
notCommitVars == <<planVars, branchVars, hookVars, writerVars, retrievalVars>>
notHookVars == <<messages, planVars, branchVars, commitVars, writerVars, retrievalVars>>
notRetrievalVars == <<planVars, branchVars, commitVars, hookVars, writerVars>>

NoValue == "NoValue"

----------------------------------------------------------------------------
(* Text helpers: Python's str.split(sep), str.strip(), str.lower(), s[:n]. *)

Whitespace == {" ", "\n", "\t"}

\* s[:n]
Prefix(s, n) == SubSeq(s, 1, IF Len(s) < n THEN Len(s) ELSE n)

\* index of the first occurrence of character c in s, 0 when there is none
FirstIndex(s, c) ==
    IF \E i \in 1..Len(s) : s[i] = c
    THEN CHOOSE i \in 1..Len(s) : s[i] = c /\ \A j \in 1..(i - 1) : s[j] # c
    ELSE 0

RECURSIVE Split(_, _)
\* s.split(sep): the pieces between separators, always at least one piece
Split(s, sep) ==
    LET i == FirstIndex(s, sep) IN
    IF i = 0 THEN <<s>>
    ELSE <<SubSeq(s, 1, i - 1)>> \o Split(SubSeq(s, i + 1, Len(s)), sep)

RECURSIVE LStrip(_)
LStrip(s) == IF s # <<>> /\ Head(s) \in Whitespace THEN LStrip(Tail(s)) ELSE s

RECURSIVE RStrip(_)
RStrip(s) ==
    IF s # <<>> /\ s[Len(s)] \in Whitespace
    THEN RStrip(SubSeq(s, 1, Len(s) - 1)) ELSE s

\* s.strip()
Strip(s) == RStrip(LStrip(s))

UpperCase == <<"A","B","C","D","E","F","G","H","I","J","K","L","M",
               "N","O","P","Q","R","S","T","U","V","W","X","Y","Z">>
LowerCase == <<"a","b","c","d","e","f","g","h","i","j","k","l","m",
               "n","o","p","q","r","s","t","u","v","w","x","y","z">>

LowerChar(c) ==
    IF \E i \in 1..Len(UpperCase) : UpperCase[i] = c
    THEN LowerCase[CHOOSE i \in 1..Len(UpperCase) : UpperCase[i] = c]
    ELSE c

\* s.lower()
Lower(s) == [i \in 1..Len(s) |-> LowerChar(s[i])]

\* s.startswith(p)
StartsWith(s, p) == Len(s) >= Len(p) /\ SubSeq(s, 1, Len(p)) = p

\* p in s
Contains(s, p) ==
    \E i \in 1..(Len(s) - Len(p) + 1) : SubSeq(s, i, i + Len(p) - 1) = p

\* a text of n copies of the character c
Rep(c, n) == [i \in 1..n |-> c]

----------------------------------------------------------------------------
(* The chat model client (src/core/models.py is not part of the source;   *)
(* its three operations are modelled from their contract).                *)

Message(role, key, content) == [role |-> role, key |-> key, content |-> content]

\* chat(prompt, message_key): append the user turn and the model's reply
Chat(msgs, prompt, key, reply) ==
    msgs \o <<Message("user", key, prompt), Message("assistant", key, reply)>>

\* undo(): drop the most recent user+assistant pair
Undo(msgs) == IF Len(msgs) >= 2 THEN SubSeq(msgs, 1, Len(msgs) - 2) ELSE <<>>

\* delete_messages_from_chat(key): drop every turn appended under key
DeleteMessagesFromChat(msgs, key) == SelectSeq(msgs, LAMBDA m : m.key # key)

\* the provider call failing (rate limit, timeout): chat() raises
ProviderError == [provider_error |-> TRUE]

\* no reply yet
NoReply == [no_reply |-> TRUE]


----------------------------------------------------------------------------
(* Domain parsing models (src/core/models.py is not part of the source):  *)
(* a reply is the labelled sections the parser looks for, each <<text>>    *)
(* or, when the reply lacks it, <<>>; from_string raises RegexMatchError   *)
(* when a section is missing.                                              *)

NoSection == <<>>
Section(text) == <<text>>

T_a_nl_star_b == <<"a",".","p","y","\n","*","b",".","p","y">>   \* "a.py\n*b.py"
T_None        == <<"N","o","n","e">>                            \* "None"
T_a_star_bad  == <<"a",".","p","y","*",":","x">>                \* "a.py*:x"
T_blank       == <<" ","*"," ">>                                \* " * "
T_b_instr     == <<"b",".","p","y",":","f","i","x">>            \* "b.py:fix"
T_a           == <<"a",".","p","y">>                            \* "a.py"
T_b           == <<"b",".","p","y">>                            \* "b.py"

CreateTexts == {T_a_nl_star_b, T_None, T_a_star_bad, T_blank}
ModifyTexts == {T_None, T_b_instr}

\* the replies the model may give to files_to_change_prompt
FilesReplies ==
    [files_to_create : {Section(t) : t \in CreateTexts} \cup {NoSection},
     files_to_modify : {Section(t) : t \in ModifyTexts} \cup {NoSection}]

\* FilesToChange.from_string succeeds
FilesToChangeParses(r) ==
    r.files_to_create # NoSection /\ r.files_to_modify # NoSection

\* FileChangeRequest.from_string(entry, change_type): the filename up to the
\* first ":", the instructions after it; a request needs a filename
FileChangeRequestParses(entry) ==
    LET i == FirstIndex(entry, ":") IN
    (IF i = 0 THEN entry ELSE SubSeq(entry, 1, i - 1)) # <<>>

FileChangeRequestFromString(entry, change_type) ==
    LET i == FirstIndex(entry, ":") IN
    [filename     |-> IF i = 0 THEN entry ELSE SubSeq(entry, 1, i - 1),
     instructions |-> IF i = 0 THEN <<>> ELSE SubSeq(entry, i + 1, Len(entry)),
     change_type  |-> change_type]

\* the replies the model may give to pull_request_prompt
PrReplies ==
    [branch_name : {NoSection, Section(<<"f","i","x","-","b","u","g">>),
                    Section(Rep("x", 300))},
     title : {"title"}, content : {"body"}]

\* PullRequest.from_string succeeds
PullRequestParses(r) == r.branch_name # NoSection

----------------------------------------------------------------------------
(* CodeGenBot.get_files_to_change                                          *)

FilesAttempts == 5
PrAttempts == 5
BranchNameMax == 250

\* zip(files_to_create + files_to_modify, ["create"]*n + ["modify"]*m)
ZipEntries(r) ==
    LET c == Split(r.files_to_create[1], "*")
        m == Split(r.files_to_modify[1], "*")
    IN  [i \in 1..Len(c) |-> [text |-> c[i], change_type |-> "create"]]
        \o [i \in 1..Len(m) |-> [text |-> m[i], change_type |-> "modify"]]

\* the test of line 47, negated: the stripped entry is kept
SurvivesNoneKept(entry) == entry # <<>>
Survives(entry) == entry # <<>> /\ entry # T_None

RECURSIVE AppendRequests(_, _)
\* the for loop of lines 41-55 over the zipped entries: appends to the list
\* until the entries end or FileChangeRequest.from_string raises
AppendRequests(acc, pairs) ==
    IF pairs = <<>> THEN [requests |-> acc, raised |-> FALSE]
    ELSE LET entry == Strip(Head(pairs).text) IN
         IF ~Survives(entry) THEN AppendRequests(acc, Tail(pairs))
         ELSE IF ~FileChangeRequestParses(entry)
              THEN [requests |-> acc, raised |-> TRUE]
              ELSE AppendRequests(
                     Append(acc, FileChangeRequestFromString(
                                     entry, Head(pairs).change_type)),
                     Tail(pairs))

\* lines 58-61, except RegexMatchError: the chat log the next attempt finds
AfterParseErrorUndo(said) == Undo(said)
AfterParseError(said) == DeleteMessagesFromChat(said, "files_to_change")

\* the list the attempt's loop starts from: the one list of line 33
AttemptList(list) == list

\* one iteration of the loop of lines 34-61 with a reply from the model
GetFilesAttempt ==
    /\ stage = "files" /\ ppc = "run" /\ count < FilesAttempts
    /\ \E r \in FilesReplies \cup {ProviderError} :
         /\ chatTurns' = chatTurns + 1
         /\ replies' = [last |-> r,
                        unparseable |-> replies.unparseable /\ r # ProviderError
                                        /\ ~FilesToChangeParses(r)]
         /\ IF r = ProviderError
            THEN \* chat() raises something that is not a RegexMatchError
                 /\ planError' = "ProviderError" /\ ppc' = "done"
                 /\ UNCHANGED <<messages, count, file_change_requests, planResult>>
            ELSE LET said == Chat(messages, "files_to_change_prompt",
                                  "files_to_change", r)
                     res == IF FilesToChangeParses(r)
                            THEN AppendRequests(AttemptList(file_change_requests),
                                                ZipEntries(r))
                            ELSE [requests |-> AttemptList(file_change_requests),
                                  raised |-> TRUE]
                 IN IF res.raised
                    THEN \* except RegexMatchError: delete, continue
                         /\ messages' = AfterParseError(said)
                         /\ file_change_requests' = res.requests
                         /\ count' = count + 1
                         /\ UNCHANGED <<ppc, planResult, planError>>
                    ELSE IF res.requests # <<>>
                    THEN \* return file_change_requests
                         /\ messages' = said
                         /\ file_change_requests' = res.requests
                         /\ planResult' = res.requests
                         /\ ppc' = "done"
                         /\ UNCHANGED <<count, planError>>
                    ELSE \* nothing survived: next iteration
                         /\ messages' = said
                         /\ file_change_requests' = res.requests
                         /\ count' = count + 1
                         /\ UNCHANGED <<ppc, planResult, planError>>
    /\ UNCHANGED <<stage, history0, notPlanVars>>

\* line 62: the loop ran out
GetFilesExhausted ==
    /\ stage = "files" /\ ppc = "run" /\ count = FilesAttempts
    /\ planError' = "StageFailure" /\ ppc' = "done"
    /\ UNCHANGED <<messages, stage, history0, count, file_change_requests, planResult,
                   chatTurns, replies, notPlanVars>>

----------------------------------------------------------------------------
(* CodeGenBot.generate_pull_request                                        *)

\* one iteration of the loop of lines 66-76
GeneratePrAttempt ==
    /\ stage = "pr" /\ ppc = "run" /\ count < PrAttempts
    /\ \E r \in PrReplies \cup {ProviderError} :
         /\ chatTurns' = chatTurns + 1
         /\ replies' = [last |-> r,
                        unparseable |-> replies.unparseable /\ r # ProviderError
                                        /\ ~PullRequestParses(r)]
         /\ IF r = ProviderError
            THEN \* except Exception: undo, continue
                 /\ messages' = Undo(messages)
                 /\ count' = count + 1
                 /\ UNCHANGED <<ppc, planResult, planError>>
            ELSE /\ messages' = Chat(messages, "pull_request_prompt",
                                     "pull_request", r)
                 /\ ppc' = "done"
                 /\ IF PullRequestParses(r)
                    THEN /\ planResult' =
                              [branch_name |-> <<"s","w","e","e","p","/">>
                                   \o Prefix(r.branch_name[1], BranchNameMax),
                               title |-> r.title, content |-> r.content]
                         /\ UNCHANGED planError
                    ELSE \* line 74 is outside the try: the error leaves
                         /\ planError' = "RegexMatchError"
                         /\ UNCHANGED planResult
                 /\ UNCHANGED count
    /\ UNCHANGED <<stage, history0, file_change_requests, notPlanVars>>

\* line 77: the loop ran out
GeneratePrExhausted ==
    /\ stage = "pr" /\ ppc = "run" /\ count = PrAttempts
    /\ planError' = "StageFailure" /\ ppc' = "done"
    /\ UNCHANGED <<messages, stage, history0, count, file_change_requests, planResult,
                   chatTurns, replies, notPlanVars>>

\* the chat history a stage may start from
InitialHistories ==
    {<<>>,
     <<Message("system", "system", "system_prompt")>>,
     <<Message("system", "system", "system_prompt"),
       Message("user", "cot_retrieval", "cot_retrieval_prompt"),
       Message("assistant", "cot_retrieval", "text")>>}

PlanIdle ==
    /\ stage = "idle" /\ ppc = "done" /\ count = 0
    /\ file_change_requests = <<>> /\ planResult = NoValue
    /\ planError = "none" /\ chatTurns = 0
    /\ replies = [last |-> NoReply, unparseable |-> TRUE]
    /\ history0 = <<>>

----------------------------------------------------------------------------
(* GithubBot.create_branch against the forge's refs.                       *)

MaxSuffix == 100
NumCallers == 2
NumShas == 2

Callers == 1..NumCallers
Shas == 1..NumShas
Suffixes == 0..(MaxSuffix - 1)

\* repo.create_git_ref(ref, sha): the forge rejects a ref that exists
CreateGitRefOverwrites(rs, n, sha) ==
    [ok |-> TRUE, refs |-> [rs EXCEPT ![n] = sha]]
CreateGitRef(rs, n, sha) ==
    IF rs[n] = 0 THEN [ok |-> TRUE, refs |-> [rs EXCEPT ![n] = sha]]
    ELSE [ok |-> FALSE, refs |-> rs]

\* line 110: base_branch = self.repo.get_branch(self.repo.default_branch)
GetBranch(c) ==
    /\ c \in callers /\ bpc[c] = "get_branch"
    /\ base' = [base EXCEPT ![c] = tip]
    /\ bpc' = [bpc EXCEPT ![c] = "create"]
    /\ UNCHANGED <<refs, refs0, tip, callers, bi, bret, battempts, berr, btried,
                   notBranchVars>>

\* the first suffix tried after the bare name, and the one tried after i
FirstSuffixSkipsOne == 0 + 2
FirstSuffix == 0 + 1
NextSuffixSkips(i) == i + 2
NextSuffix(i) == i + 1

\* lines 111-115: try the bare name
CreateBare(c) ==
    /\ c \in callers /\ bpc[c] = "create"
    /\ LET r == CreateGitRef(refs, 0, base[c]) IN
         /\ refs' = r.refs
         /\ battempts' = [battempts EXCEPT ![c] = @ + 1]
         /\ btried' = [btried EXCEPT ![c] = Append(@, 0)]
         /\ IF r.ok
            THEN /\ bret' = [bret EXCEPT ![c] = 0]
                 /\ bpc' = [bpc EXCEPT ![c] = "returned"]
                 /\ UNCHANGED <<bi, berr>>
            ELSE \* except GithubException as e
                 /\ berr' = [berr EXCEPT ![c] = 0]
                 /\ bi' = [bi EXCEPT ![c] = FirstSuffix]
                 /\ bpc' = [bpc EXCEPT ![c] = "retry"]
                 /\ UNCHANGED bret
    /\ UNCHANGED <<refs0, tip, callers, base, notBranchVars>>

\* lines 116-124: one iteration of for i in range(1, 100)
RetrySuffix(c) ==
    /\ c \in callers /\ bpc[c] = "retry" /\ bi[c] < MaxSuffix
    /\ LET r == CreateGitRef(refs, bi[c], base[c]) IN
         /\ refs' = r.refs
         /\ battempts' = [battempts EXCEPT ![c] = @ + 1]
         /\ btried' = [btried EXCEPT ![c] = Append(@, bi[c])]
         /\ IF r.ok
            THEN /\ bret' = [bret EXCEPT ![c] = bi[c]]
                 /\ bpc' = [bpc EXCEPT ![c] = "returned"]
                 /\ UNCHANGED bi
            ELSE \* except GithubException: pass
                 /\ bi' = [bi EXCEPT ![c] = NextSuffix(bi[c])]
                 /\ UNCHANGED <<bret, bpc>>
    /\ UNCHANGED <<refs0, tip, callers, base, berr, notBranchVars>>

\* line 125: raise e, the error of the bare attempt
Reraise(c) ==
    /\ c \in callers /\ bpc[c] = "retry" /\ bi[c] >= MaxSuffix
    /\ bpc' = [bpc EXCEPT ![c] = "raised"]
    /\ UNCHANGED <<refs, refs0, tip, callers, base, bi, bret, battempts, berr,
                   btried, notBranchVars>>

\* the refs a call may find: the bare name and the suffixes below k exist,
\* and possibly one more after a free suffix
ExistingRefs ==
    {0..(k - 1) : k \in 0..MaxSuffix}
        \cup {(0..(k - 1)) \cup {k + 1} : k \in 0..(MaxSuffix - 2)}

ShaOfOld(n) == 1 + (n % NumShas)

BranchIdle ==
    /\ refs = <<>> /\ refs0 = <<>> /\ tip = 1
    /\ callers = {}
    /\ bpc = [c \in Callers |-> "idle"] /\ base = [c \in Callers |-> 0]
    /\ bi = [c \in Callers |-> 0] /\ bret = [c \in Callers |-> -1]
    /\ battempts = [c \in Callers |-> 0] /\ berr = [c \in Callers |-> -1]
    /\ btried = [c \in Callers |-> <<>>]

BranchStart ==
    /\ \E e \in ExistingRefs :
         refs = [n \in Suffixes |-> IF n \in e THEN ShaOfOld(n) ELSE 0]
    /\ refs0 = refs /\ tip \in Shas
    /\ callers = {1}
    /\ bpc = [c \in Callers |-> IF c \in callers THEN "get_branch" ELSE "idle"]
    /\ base = [c \in Callers |-> 0]
    /\ bi = [c \in Callers |-> 0] /\ bret = [c \in Callers |-> -1]
    /\ battempts = [c \in Callers |-> 0] /\ berr = [c \in Callers |-> -1]
    /\ btried = [c \in Callers |-> <<>>]

\* the refs concurrent calls may find: none, a few, or every numbered
\* suffix with the bare name free
ConcurrentRefs == {{}, {0}, {1}, {0, 1}, 1..(MaxSuffix - 1)}

\* every caller is about to run create_branch with the same name
BranchStartConcurrent ==
    /\ \E e \in ConcurrentRefs :
         refs = [n \in Suffixes |-> IF n \in e THEN ShaOfOld(n) ELSE 0]
    /\ refs0 = refs /\ tip \in Shas
    /\ callers = Callers
    /\ bpc = [c \in Callers |-> "get_branch"]
    /\ base = [c \in Callers |-> 0]
    /\ bi = [c \in Callers |-> 0] /\ bret = [c \in Callers |-> -1]
    /\ battempts = [c \in Callers |-> 0] /\ berr = [c \in Callers |-> -1]
    /\ btried = [c \in Callers |-> <<>>]

----------------------------------------------------------------------------
(* The forge's files on one branch: repo.get_contents, repo.create_file and *)
(* repo.update_file as the forge answers them.                             *)

Filenames == {T_a}
NoFile == [sha |-> 0, body |-> ""]

\* repo.get_contents(path, ref=branch): unknown object when the branch or
\* the file is not there
GetContents(exists, fs, f) ==
    IF exists /\ fs[f].sha # 0
    THEN [ok |-> TRUE, sha |-> fs[f].sha, body |-> fs[f].body]
    ELSE [ok |-> FALSE, sha |-> 0, body |-> ""]

\* repo.create_file(path, message, content, branch): rejected when the
\* branch is not there or the file already is
ForgeCreateFile(exists, fs, f, body, sha) ==
    IF exists /\ fs[f].sha = 0
    THEN [ok |-> TRUE, files |-> [fs EXCEPT ![f] = [sha |-> sha, body |-> body]]]
    ELSE [ok |-> FALSE, files |-> fs]

\* repo.update_file(path, message, content, sha, branch): rejected unless
\* sha is the file's current revision
ForgeUpdateFileAnySha(exists, fs, f, body, old, sha) ==
    IF exists /\ fs[f].sha # 0
    THEN [ok |-> TRUE, files |-> [fs EXCEPT ![f] = [sha |-> sha, body |-> body]]]
    ELSE [ok |-> FALSE, files |-> fs]
ForgeUpdateFile(exists, fs, f, body, old, sha) ==
    IF exists /\ fs[f].sha # 0 /\ fs[f].sha = old
    THEN [ok |-> TRUE, files |-> [fs EXCEPT ![f] = [sha |-> sha, body |-> body]]]
    ELSE [ok |-> FALSE, files |-> fs]

Call(req, op, ok, body) == [req |-> req, op |-> op, ok |-> ok, body |-> body]

----------------------------------------------------------------------------
(* SweepBot.create_file and SweepBot.modify_file.                          *)

AuthorAttempts == 5
CommitMessageMax == 50

T_sweep_colon == <<"s","w","e","e","p",":"," ">>                  \* "sweep: "
T_file_change == <<"f","i","l","e","_","c","h","a","n","g","e","_">>

\* the replies the model may give to create_file_prompt / modify_file_prompt
FileReplies ==
    {[code |-> NoSection, commit_message |-> NoSection],
     [code |-> Section("new1"), commit_message |-> Section(<<"f","i","x">>)],
     [code |-> Section("new2"), commit_message |-> Section(Rep("m", 80))]}

\* FileChange.from_string succeeds
FileChangeParses(r) == r.code # NoSection /\ r.commit_message # NoSection

\* fuse_files(original, written) (src/utils/diff.py is not part of the
\* source): the authored body, the original when they agree
FuseFiles(original, written) == IF written = original THEN original ELSE written

\* lines 207 and 247: f"sweep: {file_change.commit_message[:50]}"
CommitMessageWhole(authored_message) == T_sweep_colon \o authored_message
CommitMessage(authored_message) ==
    T_sweep_colon \o Prefix(authored_message, CommitMessageMax)

\* lines 209-212 and 238-244, except Exception: the chat log after a reply
\* that failed to parse, as the next attempt finds it
AttemptKept(said) == said
AttemptUndone(said) == Undo(said)

\* the positions of change_files_in_github inside a create_file call, and
\* where each call returns to
CreateFilePcs == {"create_author", "reclass_author1", "reclass_author2"}

AfterCreateFile(pc) ==
    CASE pc = "create_author"   -> "create_commit"
      [] pc = "reclass_author1" -> "reclass_author2"
      [] pc = "reclass_author2" -> "reclass_commit"

\* one iteration of the loop of create_file, lines 193-212
CreateFileAttempt ==
    /\ cpc \in CreateFilePcs /\ acount < AuthorAttempts
    /\ \E r \in FileReplies \cup {ProviderError} :
         IF r = ProviderError
         THEN \* chat() raises outside the try: the error leaves
              /\ cerror' = "ProviderError" /\ cpc' = "failed"
              /\ UNCHANGED <<messages, messages0, acount, file_change, file_change_paths,
                             authored>>
         ELSE LET req == requests[idx]
                  said == Chat(messages,
                               [prompt |-> "create_file_prompt",
                                filename |-> req.filename,
                                instructions |-> req.instructions],
                               T_file_change \o req.filename, r)
              IN /\ file_change_paths' = Append(file_change_paths, req.filename)
                 /\ IF FileChangeParses(r)
                    THEN /\ messages' = said
                         /\ file_change' =
                              [code |-> r.code[1],
                               commit_message |-> CommitMessage(r.commit_message[1])]
                         /\ authored' = Append(authored,
                                               [req |-> idx, by |-> "create_file",
                                                code |-> r.code[1],
                                                attempt |-> acount + 1,
                                                before |-> messages0,
                                                after |-> said,
                                                said |-> r.commit_message[1],
                                                commit_message |->
                                                  CommitMessage(r.commit_message[1])])
                         /\ acount' = 0
                         /\ cpc' = AfterCreateFile(cpc)
                         \* line 256: the next create_file call starts here
                         /\ messages0' = IF AfterCreateFile(cpc) \in CreateFilePcs
                                          THEN said ELSE messages0
                         /\ UNCHANGED cerror
                    ELSE \* except Exception: undo, continue
                         /\ messages' = AttemptUndone(said)
                         /\ acount' = acount + 1
                         /\ UNCHANGED <<file_change, authored, cpc, cerror, messages0>>
    /\ UNCHANGED <<forgeFileVars, requests, requests0, idx, contents, mcontents, calls,
                   existed, notCommitVars>>

\* line 213: the loop of create_file ran out
CreateFileExhausted ==
    /\ cpc \in CreateFilePcs /\ acount = AuthorAttempts
    /\ cerror' = "AuthorFailure" /\ cpc' = "failed"
    /\ UNCHANGED <<messages, messages0, forgeFileVars, requests, requests0, idx, acount, file_change,
                   contents, mcontents, file_change_paths, calls, authored,
                   existed, notCommitVars>>

\* lines 218-221 of modify_file: an empty contents argument is fetched from
\* the default branch
ModifyFileEnter ==
    /\ cpc = "modify_enter"
    /\ IF contents.body = ""
       THEN LET got == GetContents(TRUE, defaultFiles, requests[idx].filename) IN
            /\ calls' = Append(calls, Call(idx, "get_file_default", got.ok, got.body))
            /\ IF got.ok
               THEN /\ mcontents' = got.body /\ cpc' = "modify_author"
                    /\ UNCHANGED cerror
               ELSE /\ cerror' = "GithubException" /\ cpc' = "failed"
                    /\ UNCHANGED mcontents
       ELSE /\ mcontents' = contents.body /\ cpc' = "modify_author"
            /\ UNCHANGED <<calls, cerror>>
    /\ acount' = 0
    /\ messages0' = messages
    /\ UNCHANGED <<messages, forgeFileVars, requests, requests0, idx, file_change, contents,
                   file_change_paths, authored, existed, notCommitVars>>

\* one iteration of the loop of modify_file, lines 223-248
ModifyFileAttempt ==
    /\ cpc = "modify_author" /\ acount < AuthorAttempts
    /\ \E r \in FileReplies \cup {ProviderError} :
         IF r = ProviderError
         THEN /\ cerror' = "ProviderError" /\ cpc' = "failed"
              /\ UNCHANGED <<messages, messages0, acount, file_change, file_change_paths,
                             authored>>
         ELSE LET req == requests[idx]
                  said == Chat(messages,
                               [prompt |-> "modify_file_prompt",
                                filename |-> req.filename,
                                instructions |-> req.instructions,
                                code |-> mcontents],
                               T_file_change \o req.filename, r)
              IN /\ file_change_paths' = Append(file_change_paths, req.filename)
                 /\ IF FileChangeParses(r)
                    THEN /\ messages' = said
                         /\ file_change' =
                              [code |-> FuseFiles(mcontents, r.code[1]),
                               commit_message |-> CommitMessage(r.commit_message[1])]
                         /\ authored' = Append(authored,
                                               [req |-> idx, by |-> "modify_file",
                                                code |-> FuseFiles(mcontents, r.code[1]),
                                                attempt |-> acount + 1,
                                                before |-> messages0,
                                                after |-> said,
                                                said |-> r.commit_message[1],
                                                commit_message |->
                                                  CommitMessage(r.commit_message[1])])
                         /\ acount' = 0
                         /\ cpc' = "modify_commit"
                         /\ UNCHANGED <<cerror, messages0>>
                    ELSE /\ messages' = AttemptUndone(said)
                         /\ acount' = acount + 1
                         /\ UNCHANGED <<file_change, authored, cpc, cerror, messages0>>
    /\ UNCHANGED <<forgeFileVars, requests, requests0, idx, contents, mcontents, calls,
                   existed, notCommitVars>>

\* line 250: the loop of modify_file ran out
ModifyFileExhausted ==
    /\ cpc = "modify_author" /\ acount = AuthorAttempts
    /\ cerror' = "AuthorFailure" /\ cpc' = "failed"
    /\ UNCHANGED <<messages, messages0, forgeFileVars, requests, requests0, idx, acount, file_change,
                   contents, mcontents, file_change_paths, calls, authored,
                   existed, notCommitVars>>

----------------------------------------------------------------------------
(* SweepBot.change_files_in_github.                                        *)

OnBranch(f) == branchExists /\ branchFiles[f].sha # 0

\* line 267, the iterator is exhausted: the method returns
LoopDone ==
    /\ cpc = "next" /\ idx > Len(requests)
    /\ cpc' = "done"
    /\ UNCHANGED <<messages, messages0, forgeFileVars, requests, requests0, idx, acount, file_change,
                   contents, mcontents, file_change_paths, calls, authored,
                   existed, cerror, notCommitVars>>

\* line 268: the request is a create
BeginCreate ==
    /\ cpc = "next" /\ idx <= Len(requests)
    /\ requests[idx].change_type = "create"
    /\ cpc' = "create_author" /\ acount' = 0
    /\ existed' = Append(existed, OnBranch(requests[idx].filename))
    /\ messages0' = messages
    /\ UNCHANGED <<messages, forgeFileVars, requests, requests0, idx, file_change, contents,
                   mcontents, file_change_paths, calls, authored, cerror,
                   notCommitVars>>

\* line 293: the request is a modify
BeginModify ==
    /\ cpc = "next" /\ idx <= Len(requests)
    /\ requests[idx].change_type = "modify"
    /\ cpc' = "modify_get"
    /\ existed' = Append(existed, OnBranch(requests[idx].filename))
    /\ UNCHANGED <<messages, messages0, forgeFileVars, requests, requests0, idx, acount, file_change,
                   contents, mcontents, file_change_paths, calls, authored,
                   cerror, notCommitVars>>

\* lines 325-326: any other kind
InvalidChangeTypeSkipped ==
    /\ cpc = "next" /\ idx <= Len(requests)
    /\ requests[idx].change_type \notin {"create", "modify"}
    /\ idx' = idx + 1
    /\ existed' = Append(existed, OnBranch(requests[idx].filename))
    /\ UNCHANGED <<messages, messages0, forgeFileVars, requests, requests0, cpc, acount,
                   file_change, contents, mcontents, file_change_paths, calls,
                   authored, cerror, notCommitVars>>
InvalidChangeType ==
    /\ cpc = "next" /\ idx <= Len(requests)
    /\ requests[idx].change_type \notin {"create", "modify"}
    /\ cerror' = "InvalidChangeType" /\ cpc' = "failed"
    /\ existed' = Append(existed, OnBranch(requests[idx].filename))
    /\ UNCHANGED <<messages, messages0, forgeFileVars, requests, requests0, idx, acount, file_change,
                   contents, mcontents, file_change_paths, calls, authored,
                   notCommitVars>>

\* the body the fallback of lines 284-290 commits
FallbackBodyOld(fc, got) == got.body
FallbackBody(fc, got) == fc.code

\* lines 274-281: commit the authored file as a new file
CommitCreate ==
    /\ cpc = "create_commit"
    /\ LET f == requests[idx].filename
           r == ForgeCreateFile(branchExists, branchFiles, f, file_change.code,
                                nextSha)
       IN /\ branchFiles' = r.files
          /\ calls' = Append(calls, Call(idx, "create_file", r.ok, file_change.code))
          /\ IF r.ok
             THEN /\ nextSha' = nextSha + 1 /\ idx' = idx + 1 /\ cpc' = "next"
             ELSE \* except github.GithubException
                  /\ cpc' = "fallback_get" /\ UNCHANGED <<nextSha, idx>>
    /\ UNCHANGED <<messages, messages0, branchExists, defaultFiles, requests, requests0, acount,
                   file_change, contents, mcontents, file_change_paths, authored,
                   existed, cerror, notCommitVars>>

\* line 283: fetch the existing file; a failure is swallowed (lines 291-292)
FallbackGetRaises ==
    /\ cpc = "fallback_get"
    /\ LET got == GetContents(branchExists, branchFiles, requests[idx].filename) IN
          /\ calls' = Append(calls, Call(idx, "get_file", got.ok, got.body))
          /\ IF got.ok
             THEN /\ contents' = [sha |-> got.sha, body |-> got.body]
                  /\ cpc' = "fallback_update" /\ UNCHANGED cerror
             ELSE /\ cerror' = "GithubException" /\ cpc' = "failed"
                  /\ UNCHANGED contents
    /\ UNCHANGED <<messages, messages0, forgeFileVars, requests, requests0, idx, acount,
                   file_change, mcontents, file_change_paths, authored, existed,
                   notCommitVars>>
FallbackGet ==
    /\ cpc = "fallback_get"
    /\ LET got == GetContents(branchExists, branchFiles, requests[idx].filename) IN
          /\ calls' = Append(calls, Call(idx, "get_file", got.ok, got.body))
          /\ IF got.ok
             THEN /\ contents' = [sha |-> got.sha, body |-> got.body]
                  /\ cpc' = "fallback_update" /\ UNCHANGED idx
             ELSE /\ idx' = idx + 1 /\ cpc' = "next" /\ UNCHANGED contents
    /\ UNCHANGED <<messages, messages0, forgeFileVars, requests, requests0, acount, file_change,
                   mcontents, file_change_paths, authored, existed, cerror,
                   notCommitVars>>

\* lines 284-290: update the existing file; a failure is swallowed
FallbackUpdate ==
    /\ cpc = "fallback_update"
    /\ LET f == requests[idx].filename
           body == FallbackBody(file_change, contents)
           r == ForgeUpdateFile(branchExists, branchFiles, f, body,
                                contents.sha, nextSha)
       IN /\ branchFiles' = r.files
          /\ calls' = Append(calls, Call(idx, "update_file", r.ok, body))
          /\ nextSha' = IF r.ok THEN nextSha + 1 ELSE nextSha
    /\ idx' = idx + 1 /\ cpc' = "next"
    /\ UNCHANGED <<messages, messages0, branchExists, defaultFiles, requests, requests0, acount,
                   file_change, contents, mcontents, file_change_paths, authored,
                   existed, cerror, notCommitVars>>

\* the kind a modify request gets when its file is unknown (line 299)
ReclassifiedKept == "modify"
Reclassified == "create"

\* lines 295-299: fetch the file to modify; unknown object reclassifies
ModifyGet ==
    /\ cpc = "modify_get"
    /\ LET got == GetContents(branchExists, branchFiles, requests[idx].filename) IN
          /\ calls' = Append(calls, Call(idx, "get_file", got.ok, got.body))
          /\ IF got.ok
             THEN /\ contents' = [sha |-> got.sha, body |-> got.body]
                  /\ cpc' = "modify_enter"
                  /\ UNCHANGED <<requests, acount>>
             ELSE \* except github.UnknownObjectException
                  /\ requests' = [requests EXCEPT ![idx].change_type = Reclassified]
                  /\ cpc' = "reclass_author1" /\ acount' = 0
                  /\ UNCHANGED contents
    /\ messages0' = messages
    /\ UNCHANGED <<messages, forgeFileVars, requests0, idx, file_change,
                   mcontents, file_change_paths, authored, existed, cerror,
                   notCommitVars>>

\* lines 305-310: commit the reclassified request as a new file; a forge
\* error is not caught here
CommitReclass ==
    /\ cpc = "reclass_commit"
    /\ LET f == requests[idx].filename
           r == ForgeCreateFile(branchExists, branchFiles, f, file_change.code,
                                nextSha)
       IN /\ branchFiles' = r.files
          /\ calls' = Append(calls, Call(idx, "create_file", r.ok, file_change.code))
          /\ IF r.ok
             THEN /\ nextSha' = nextSha + 1 /\ idx' = idx + 1 /\ cpc' = "next"
                  /\ UNCHANGED cerror
             ELSE /\ cerror' = "GithubException" /\ cpc' = "failed"
                  /\ UNCHANGED <<nextSha, idx>>
    /\ UNCHANGED <<messages, messages0, branchExists, defaultFiles, requests, requests0, acount,
                   file_change, contents, mcontents, file_change_paths, authored,
                   existed, notCommitVars>>

\* lines 318-324: commit the modified file as an update at the fetched sha;
\* a forge error is not caught here
CommitModify ==
    /\ cpc = "modify_commit"
    /\ LET f == requests[idx].filename
           r == ForgeUpdateFile(branchExists, branchFiles, f, file_change.code,
                                contents.sha, nextSha)
       IN /\ branchFiles' = r.files
          /\ calls' = Append(calls, Call(idx, "update_file", r.ok, file_change.code))
          /\ IF r.ok
             THEN /\ nextSha' = nextSha + 1 /\ idx' = idx + 1 /\ cpc' = "next"
                  /\ UNCHANGED cerror
             ELSE /\ cerror' = "GithubException" /\ cpc' = "failed"
                  /\ UNCHANGED <<nextSha, idx>>
    /\ UNCHANGED <<messages, messages0, branchExists, defaultFiles, requests, requests0, acount,
                   file_change, contents, mcontents, file_change_paths, authored,
                   existed, notCommitVars>>

MaxRequests == 2

ChangeKinds == {"create", "modify", "delete"}

Requests ==
    [filename : Filenames, instructions : {<<"d","o">>}, change_type : ChangeKinds]

RequestLists == UNION {[1..n -> Requests] : n \in 1..MaxRequests}

\* what the working branch and the default branch may hold of a file
BranchBodies == {"", "old"}
DefaultBodies == {"dflt"}

\* the chat log the authoring stage starts from: the session's system
\* prompt and the planning turns that produced the requests
AuthoringHistory ==
    <<Message("system", "system", "system_prompt"),
      Message("user", "files_to_change", "files_to_change_prompt"),
      Message("assistant", "files_to_change", "plan")>>

CommitIdle ==
    /\ branchExists = FALSE
    /\ branchFiles = [f \in Filenames |-> NoFile]
    /\ defaultFiles = [f \in Filenames |-> NoFile]
    /\ nextSha = 1 /\ requests = <<>> /\ requests0 = <<>> /\ idx = 1
    /\ cpc = "idle" /\ acount = 0
    /\ file_change = [code |-> "", commit_message |-> <<>>]
    /\ contents = NoFile /\ mcontents = "" /\ file_change_paths = <<>>
    /\ calls = <<>> /\ authored = <<>> /\ existed = <<>> /\ cerror = "none"
    /\ otherWrites = 0 /\ messages0 = <<>>

CommitStart ==
    /\ branchExists \in BOOLEAN
    /\ branchFiles \in [Filenames -> {NoFile} \cup [sha : {1}, body : BranchBodies]]
    /\ ~branchExists => branchFiles = [f \in Filenames |-> NoFile]
    /\ defaultFiles \in [Filenames -> {NoFile} \cup [sha : {1}, body : DefaultBodies]]
    /\ nextSha = 2 /\ requests \in RequestLists /\ requests0 = requests
    /\ idx = 1 /\ cpc = "next"
    /\ acount = 0
    /\ file_change = [code |-> "", commit_message |-> <<>>]
    /\ contents = NoFile /\ mcontents = "" /\ file_change_paths = <<>>
    /\ calls = <<>> /\ authored = <<>> /\ existed = <<>> /\ cerror = "none"
    /\ otherWrites = 0 /\ messages0 = <<>>

MaxOtherWrites == 1

\* the body another invocation commits
TheirBody == "theirs"

\* lines 318-324 as run by another invocation of change_files_in_github on
\* the same branch: its update of a file reaches the forge
OtherWriterCommits ==
    /\ cpc # "idle" /\ otherWrites < MaxOtherWrites
    /\ \E f \in Filenames :
         /\ OnBranch(f)
         /\ branchFiles' = [branchFiles EXCEPT ![f] =
                                [sha |-> nextSha, body |-> TheirBody]]
    /\ nextSha' = nextSha + 1
    /\ otherWrites' = otherWrites + 1
    /\ UNCHANGED <<messages, messages0, branchExists, defaultFiles, requests, requests0, idx,
                   cpc, acount, file_change, contents, mcontents,
                   file_change_paths, calls, authored, existed, cerror,
                   planVars, branchVars, hookVars, retrievalVars>>

\* one or two requests, on a branch another invocation also writes to
CommitStartShared == CommitStart /\ Len(requests) \in {1, 2}

----------------------------------------------------------------------------
(* The webhook gateway: api.py, webhook().  A nullable field is <<>> (None) *)
(* or <<value>>.                                                           *)

None == <<>>
Some(v) == <<v>>

\* x or ""
OrEmptyKeepsNone(x) == x
OrEmpty(x) == IF x = None \/ x = Some("") THEN Some("") ELSE x

\* constants of src/utils/constants.py, which is not part of the source
T_sweep == <<"s","w","e","e","p">>
LABEL_NAME == T_sweep
SWEEP_LOGIN == "sweep-bot"

T_Sweep == <<"S","w","e","e","p">>
T_bug == <<"b","u","g">>
LabelSets == {{}, {T_sweep}, {T_Sweep}, {T_bug}, {T_bug, T_Sweep}}
Titles == {<<"S","w","e","e","p"," ","i","t">>,
           <<"a"," ","S","W","E","E","P",":","b">>,
           <<"a"," ","s","w","e","e","p">>,
           <<"s","w","e","p","t">>}
HeadRefs == {<<"s","w","e","e","p","/","x">>, <<"S","w","e","e","p","/","X">>,
             <<"m","a","i","n">>}
RepoNames == {<<"o","/","a">>, <<"p","/","b">>}
IssueNumbers == {1, 2}

OK200 == [status |-> 200, body |-> "success"]
Pong == [status |-> 200, body |-> "pong"]
ParseFailure == [status |-> 422, body |-> "Failed to parse request"]
Unhandled == [status |-> 422, body |-> "Unhandled event"]
InternalError == [status |-> 500, body |-> "Internal Server Error"]

\* "sweep" in [label.name.lower() for label in request.issue.labels]
HasSweepLabel(labels) == \E l \in labels : Lower(l) = T_sweep

\* the issues a payload may carry
Issues(titles, bodies, numbers, labelsets, logins, prs) ==
    [title : titles, body : bodies, number : numbers, html_url : {"url"},
     labels : labelsets, login : logins, pull_request : prs]

\* a payload that fails its schema is kept in one shape
Canonical(h) == h.issue = None /\ h.description = None

\* handle_ticket.spawn(...), lines 109-118 and 130-140
TicketJob(h, comment_id) ==
    [job |-> "handle_ticket", title |-> h.issue[1].title,
     body |-> OrEmpty(h.issue[1].body), number |-> h.issue[1].number,
     html_url |-> h.issue[1].html_url, username |-> h.issue[1].login, repo_full_name |-> h.full_name,
     repo_description |-> OrEmpty(h.description),
     installation_id |-> h.installation_id, comment_id |-> comment_id]

\* handle_comment.spawn(...), lines 143-152 and 156-165
CommentJob(h, path, line, number) ==
    [job |-> "handle_comment", repo_full_name |-> h.full_name,
     repo_description |-> h.description, comment |-> h.comment.body,
     pr_path |-> path, pr_line_position |-> line,
     username |-> h.comment.login, installation_id |-> h.installation_id,
     pr_number |-> number]

\* what a webhook that does not touch the forge's labels leaves alone
notAnswerVars == <<repoLabels, issueLabels, labelCreates, notHookVars>>

\* lines 66-69: the body is not JSON, or the event header is missing; the
\* error is none that webhook() catches
WebhookBroken ==
    \E h \in [event : {None, Some("issues")}, action : {Some("opened")},
              json_ok : BOOLEAN, valid : {TRUE}] :
        /\ ~h.json_ok \/ h.event = None
        /\ hreq' = h /\ response' = InternalError
        /\ spawned' = <<>> /\ analytics' = <<>>
        /\ UNCHANGED notAnswerVars

\* the payloads of issues events (issue None: the payload has no issue)
IssuePayloads(action, issues) ==
    [event : {Some("issues")}, action : {Some(action)}, json_ok : {TRUE},
     valid : BOOLEAN, issue : {None} \cup {Some(i) : i \in issues},
     full_name : {<<"o","/","a">>}, description : {None, Some("desc")},
     installation_id : {7}]

\* issue_title_lower.startswith("sweep") or "sweep:" in issue_title_lower
TitleAsksForSweepExactCase(title) ==
    StartsWith(title, T_sweep) \/ Contains(title, T_sweep \o <<":">>)
TitleAsksForSweep(title) ==
    StartsWith(Lower(title), T_sweep) \/ Contains(Lower(title), T_sweep \o <<":">>)

\* lines 71-97: case "issues", "opened"
WebhookIssuesOpened ==
    \E g \in IssuePayloads("opened",
                            Issues(Titles, {None}, IssueNumbers, {{}},
                                   {"alice"}, {None})) :
        /\ ~g.valid => Canonical(g)
        /\ g.description = None
        /\ hreq' = g /\ spawned' = <<>> /\ analytics' = <<>>
        /\ IF ~g.valid
           THEN /\ response' = ParseFailure
                /\ UNCHANGED <<repoLabels, issueLabels, labelCreates>>
           ELSE IF g.issue = None
           THEN /\ response' = InternalError
                /\ UNCHANGED <<repoLabels, issueLabels, labelCreates>>
           ELSE /\ response' = OK200
                /\ IF TitleAsksForSweep(g.issue[1].title)
                   THEN /\ repoLabels' = repoLabels \cup {LABEL_NAME}
                        /\ labelCreates' = IF LABEL_NAME \notin repoLabels
                                           THEN labelCreates + 1 ELSE labelCreates
                        /\ issueLabels' =
                             [issueLabels EXCEPT ![g.issue[1].number] =
                                                     @ \cup {LABEL_NAME}]
                   ELSE UNCHANGED <<repoLabels, issueLabels, labelCreates>>
        /\ UNCHANGED notHookVars

\* the jobs of lines 100-118
LabeledJobs(h) ==
    IF h.issue # None /\ HasSweepLabel(h.issue[1].labels)
    THEN <<TicketJob(h, None)>> ELSE <<>>

\* lines 98-118: case "issues", "labeled"
WebhookIssuesLabeled ==
    \E h \in IssuePayloads("labeled",
                            Issues({<<"t">>}, {None, Some("text")}, {1},
                                   LabelSets, {"alice"}, {None})) :
        /\ ~h.valid => Canonical(h)
        /\ hreq' = h /\ analytics' = <<>>
        /\ response' = IF h.valid THEN OK200 ELSE ParseFailure
        /\ spawned' = IF h.valid THEN LabeledJobs(h) ELSE <<>>
        /\ UNCHANGED notAnswerVars

\* the payloads of issue_comment events
CommentPayloads ==
    [event : {Some("issue_comment")}, action : {Some("created")},
     json_ok : {TRUE}, valid : BOOLEAN,
     issue : {None} \cup
             {Some(i) : i \in Issues({<<"t">>}, {None, Some("text")}, {1},
                                     LabelSets, {SWEEP_LOGIN, "alice"},
                                     {None, Some("pr")})},
     comment : [id : {41}, body : {"please"}, type : {"User", "Bot"},
                login : {"bob"}],
     full_name : {<<"o","/","a">>}, description : {None, Some("desc")},
     installation_id : {7}]

\* the test of lines 121-123
IsTicketComment(h) ==
    /\ h.issue # None
    /\ HasSweepLabel(h.issue[1].labels)
    /\ h.comment.type = "User"

\* the test of line 141
IsOwnPullRequest(h) ==
    h.issue[1].pull_request # None /\ h.issue[1].login = SWEEP_LOGIN

\* the jobs of lines 121-152, for a payload with an issue
CommentJobsNoAuthorTest(h) ==
    IF HasSweepLabel(h.issue[1].labels)
    THEN <<TicketJob(h, Some(h.comment.id))>>
    ELSE IF IsOwnPullRequest(h)
    THEN <<CommentJob(h, None, None, h.issue[1].number)>>
    ELSE <<>>
CommentJobsWithPath(h) ==
    IF IsTicketComment(h)
    THEN <<TicketJob(h, Some(h.comment.id))>>
    ELSE IF IsOwnPullRequest(h)
    THEN <<CommentJob(h, Some("a.py"), None, h.issue[1].number)>>
    ELSE <<>>
CommentJobsBoth(h) ==
    (IF IsTicketComment(h) THEN <<TicketJob(h, Some(h.comment.id))>> ELSE <<>>)
    \o (IF IsOwnPullRequest(h)
        THEN <<CommentJob(h, None, None, h.issue[1].number)>> ELSE <<>>)
CommentJobs(h) ==
    IF IsTicketComment(h)
    THEN <<TicketJob(h, Some(h.comment.id))>>
    ELSE IF IsOwnPullRequest(h)
    THEN <<CommentJob(h, None, None, h.issue[1].number)>>
    ELSE <<>>

\* lines 119-152: case "issue_comment", "created"
WebhookIssueComment ==
    \E h \in CommentPayloads :
        /\ ~h.valid => Canonical(h) /\ h.comment.type = "User"
        /\ hreq' = h /\ analytics' = <<>>
        /\ response' = IF ~h.valid THEN ParseFailure
                        \* line 141 reads request.issue.pull_request of None
                        ELSE IF h.issue = None THEN InternalError
                        ELSE OK200
        /\ spawned' = IF h.valid /\ h.issue # None THEN CommentJobs(h) ELSE <<>>
        /\ UNCHANGED notAnswerVars

\* lines 153-165: case "pull_request_review_comment", "created"
WebhookReviewComment ==
    \E h \in [event : {Some("pull_request_review_comment")},
              action : {Some("created")}, json_ok : {TRUE}, valid : BOOLEAN,
              head_ref : HeadRefs, number : IssueNumbers,
              comment : [id : {41}, body : {"please"}, type : {"User"},
                         login : {"bob"}, path : {"a.py"}, original_line : {3}],
              full_name : {<<"o","/","a">>}, description : {None, Some("desc")},
              installation_id : {7}] :
        /\ ~h.valid => h.description = None /\ h.number = 1
        /\ hreq' = h /\ analytics' = <<>>
        /\ response' = IF h.valid THEN OK200 ELSE ParseFailure
        /\ spawned' = IF h.valid /\ Contains(Lower(h.head_ref), T_sweep \o <<"/">>)
                       THEN <<CommentJob(h, Some(h.comment.path),
                                         Some(h.comment.original_line), h.number)>>
                       ELSE <<>>
        /\ UNCHANGED notAnswerVars

\* the answer of lines 167-168: ReviewSubmittedRequest is no name of api.py
\* (lines 8-14), so evaluating it raises NameError, which is not caught
ReviewSubmittedAnswer == InternalError

\* lines 167-168: case "pull_request_review", "submitted"
WebhookReviewSubmitted ==
    \E h \in [event : {Some("pull_request_review")}, action : {Some("submitted")},
              json_ok : {TRUE}, valid : BOOLEAN, state : {"approved", "commented"}] :
        /\ hreq' = h /\ response' = ReviewSubmittedAnswer
        /\ spawned' = <<>> /\ analytics' = <<>>
        /\ UNCHANGED notAnswerVars

MaxRepos == 2

\* the repository lists of installation payloads
RepoLists == UNION {[1..n -> RepoNames] : n \in 0..MaxRepos}

\* index_full_repository(repo.full_name, installation_id=...)
IndexJob(name, installation_id) ==
    [job |-> "index_full_repository", repo_full_name |-> name,
     installation_id |-> installation_id]

\* posthog.capture(organization, "installed_repository", properties=...)
InstalledEvent(name) ==
    LET parts == Split(name, "/") IN
    [distinct_id |-> parts[1], event |-> "installed_repository",
     repo_name |-> parts[2], organization |-> parts[1], repo_full_name |-> name]

\* lines 169-195: case "installation_repositories", "added"
WebhookReposAdded ==
    \E h \in [event : {Some("installation_repositories")}, action : {Some("added")},
              json_ok : {TRUE}, valid : BOOLEAN, repositories_added : RepoLists,
              installation_id : {7}] :
        /\ ~h.valid => h.repositories_added = <<>>
        /\ hreq' = h
        /\ response' = IF h.valid THEN OK200 ELSE ParseFailure
        /\ spawned' = IF h.valid
                       THEN [k \in 1..Len(h.repositories_added) |->
                               IndexJob(h.repositories_added[k], h.installation_id)]
                       ELSE <<>>
        /\ analytics' = IF h.valid
                         THEN <<[distinct_id |-> "installation_repositories",
                                 event |-> "started",
                                 installation_id |-> h.installation_id,
                                 repositories |-> h.repositories_added]>>
                              \o [k \in 1..Len(h.repositories_added) |->
                                     InstalledEvent(h.repositories_added[k])]
                         ELSE <<>>
        /\ UNCHANGED notAnswerVars

\* lines 196-202: case "installation", "created"
WebhookInstallationCreated ==
    \E h \in [event : {Some("installation")}, action : {Some("created")},
              json_ok : {TRUE}, valid : BOOLEAN, repositories : RepoLists,
              installation_id : {7}] :
        /\ ~h.valid => h.repositories = <<>>
        /\ hreq' = h /\ analytics' = <<>>
        /\ response' = IF h.valid THEN OK200 ELSE ParseFailure
        /\ spawned' = IF h.valid
                       THEN [k \in 1..Len(h.repositories) |->
                               IndexJob(h.repositories[k], h.installation_id)]
                       ELSE <<>>
        /\ UNCHANGED notAnswerVars

\* update_index.spawn(request_dict["repository"]["full_name"], ...)
UpdateIndexJob(h) ==
    [job |-> "update_index", repo_full_name |-> h.full_name[1],
     installation_id |-> h.installation_id[1]]

\* lines 203-208: case ("push", None) | ("pull_request", "closed"); the body
\* is read as a dict, a key that is not there raises KeyError
WebhookPushOrClosed ==
    \E h \in [event : {Some("push"), Some("pull_request")},
              action : {None, Some("closed")}, json_ok : {TRUE}, valid : {TRUE},
              base_merged : {None, Some(TRUE), Some(FALSE)},
              full_name : {None, Some(<<"o","/","a">>)},
              installation_id : {None, Some(7)}] :
        /\ (h.event = Some("push") /\ h.action = None)
             \/ (h.event = Some("pull_request") /\ h.action = Some("closed"))
        /\ hreq' = h /\ analytics' = <<>>
        /\ IF h.event = Some("pull_request") /\ h.base_merged = None
           THEN response' = InternalError /\ spawned' = <<>>
           ELSE IF h.event # Some("pull_request") \/ h.base_merged = Some(TRUE)
           THEN IF h.full_name = None \/ h.installation_id = None
                THEN response' = InternalError /\ spawned' = <<>>
                ELSE response' = OK200 /\ spawned' = <<UpdateIndexJob(h)>>
           ELSE response' = OK200 /\ spawned' = <<>>
        /\ UNCHANGED notAnswerVars

\* lines 209-210: case "ping", None
WebhookPing ==
    \E h \in [event : {Some("ping")}, action : {None}, json_ok : {TRUE},
              valid : {TRUE}, zen : {"zen"}] :
        /\ hreq' = h /\ response' = Pong
        /\ spawned' = <<>> /\ analytics' = <<>>
        /\ UNCHANGED notAnswerVars

\* the (event, action) pairs of the match statement, lines 70-210
RoutingTable ==
    {<<"issues", Some("opened")>>, <<"issues", Some("labeled")>>,
     <<"issue_comment", Some("created")>>,
     <<"pull_request_review_comment", Some("created")>>,
     <<"pull_request_review", Some("submitted")>>,
     <<"installation_repositories", Some("added")>>,
     <<"installation", Some("created")>>,
     <<"push", None>>, <<"pull_request", Some("closed")>>, <<"ping", None>>}

\* lines 211-218: case _
WebhookUnhandled ==
    \E h \in [event : {Some("issues"), Some("push"), Some("ping"), Some("star")},
              action : {None, Some("closed"), Some("created")},
              json_ok : {TRUE}, valid : {TRUE}] :
        /\ <<h.event[1], h.action>> \notin RoutingTable
        /\ hreq' = h /\ response' = Unhandled
        /\ spawned' = <<>> /\ analytics' = <<>>
        /\ UNCHANGED notAnswerVars

HookIdle ==
    /\ hreq = [event |-> None, action |-> None, json_ok |-> TRUE, valid |-> TRUE]
    /\ response = [status |-> 0, body |-> "none"]
    /\ spawned = <<>> /\ analytics = <<>> /\ repoLabels = {}
    /\ issueLabels = [n \in IssueNumbers |-> {}] /\ labelCreates = 0

\* no webhook received yet; the repository may have labels already
HookStart ==
    /\ hreq = [event |-> None, action |-> None, json_ok |-> TRUE, valid |-> TRUE]
    /\ response = [status |-> 0, body |-> "none"]
    /\ spawned = <<>> /\ analytics = <<>>
    /\ repoLabels \in SUBSET {T_sweep, <<"b","u","g">>}
    /\ issueLabels = [n \in IssueNumbers |-> {}] /\ labelCreates = 0

----------------------------------------------------------------------------
(* SweepBot.cot_retrieval: the tool loop over cat and finish.  A reply is  *)
(* the text chat() returns and the is_function_call mark of the assistant  *)
(* turn; the text of a tool call is the JSON of its name and arguments,    *)
(* the arguments <<>> for {} and <<path>> for {"filepath": path}.          *)

CotRetries == 3
CatMax == 10000

CallText(name, arguments) ==
    [form |-> "text", json |-> TRUE, name |-> name, arguments |-> arguments]
ProseText == [form |-> "text", json |-> FALSE, name |-> "", arguments |-> None]

\* json.loads(response): the value must be text and the text must be JSON
JsonLoadsRaises(v) == v.form # "text" \/ ~v.json
JsonLoads(v) == [form |-> "dict", json |-> TRUE, name |-> v.name,
                 arguments |-> v.arguments]

\* the replies the model may give in tool-calling mode
RetrievalReplies ==
    {[is_function_call |-> TRUE, text |-> CallText("cat", Some(T_a))],
     [is_function_call |-> TRUE, text |-> CallText("cat", Some(T_b))],
     [is_function_call |-> TRUE, text |-> CallText("cat", None)],
     [is_function_call |-> TRUE, text |-> CallText("finish", None)],
     [is_function_call |-> TRUE, text |-> CallText("ls", None)],
     [is_function_call |-> FALSE, text |-> ProseText],
     [is_function_call |-> FALSE, text |-> CallText("cat", Some(T_a))]}

\* self.messages[-1].is_function_call
LatestIsFunctionCall(msgs) == msgs[Len(msgs)].content.is_function_call

RetrievalPaths == {T_a, T_b}
ShortBody == <<"x", "\n">>
LongBody == Rep("y", CatMax + 1)

\* lines 179 and 185: what a cat feeds back
FileNotFound(path) == [prompt |-> "File not found", path |-> path, content |-> <<>>]
HereIsTheFile(path, content) ==
    [prompt |-> "Here is the file", path |-> path, content |-> Prefix(content, CatMax)]

\* lines 153-158: the first turn; the mark of its reply is read once
CotAsk ==
    /\ rpc = "ask"
    /\ \E r \in RetrievalReplies \cup {ProviderError} :
         IF r = ProviderError
         THEN /\ rerror' = "ProviderError" /\ rpc' = "failed"
              /\ UNCHANGED <<messages, cot_response, is_function_call, retry, cturns>>
         ELSE /\ messages' = Chat(messages, [prompt |-> "cot_retrieval_prompt"],
                                  "cot_retrieval", r)
              /\ cot_response' = r.text
              /\ is_function_call' = LatestIsFunctionCall(messages')
              /\ retry' = 0 /\ cturns' = 1 /\ rpc' = "loop"
              /\ UNCHANGED rerror
    /\ UNCHANGED <<rfiles, decoded, notRetrievalVars>>

\* lines 161-162: not a function call, break
CotBreak ==
    /\ rpc = "loop" /\ retry < CotRetries /\ ~is_function_call
    /\ rpc' = "returned"
    /\ UNCHANGED <<messages, cot_response, is_function_call, retry, rerror, rfiles,
                   decoded, cturns, notRetrievalVars>>

\* lines 164-168 and 172: json.loads raises on what is not JSON text, and
\* arguments["filepath"] on arguments without a filepath
CotDecodeFails ==
    /\ rpc = "loop" /\ retry < CotRetries /\ is_function_call
    /\ \/ /\ JsonLoadsRaises(cot_response)
          /\ rerror' = IF cot_response.form = "text" THEN "JSONDecodeError"
                       ELSE "TypeError"
       \/ /\ ~JsonLoadsRaises(cot_response)
          /\ cot_response.name = "cat" /\ cot_response.arguments = None
          /\ rerror' = "KeyError"
    /\ rpc' = "failed"
    /\ decoded' = Append(decoded,
                         [was_call |-> LatestIsFunctionCall(messages),
                          form |-> cot_response.form,
                          raised |-> JsonLoadsRaises(cot_response)])
    /\ UNCHANGED <<messages, cot_response, is_function_call, retry, rfiles, cturns,
                   notRetrievalVars>>

\* lines 169-170: finish
CotFinish ==
    /\ rpc = "loop" /\ retry < CotRetries /\ is_function_call
    /\ ~JsonLoadsRaises(cot_response) /\ cot_response.name = "finish"
    /\ rpc' = "returned"
    /\ cot_response' = JsonLoads(cot_response)
    /\ decoded' = Append(decoded,
                         [was_call |-> LatestIsFunctionCall(messages),
                          form |-> cot_response.form, raised |-> FALSE])
    /\ UNCHANGED <<messages, is_function_call, retry, rerror, rfiles, cturns,
                   notRetrievalVars>>

\* lines 171-188: cat fetches the path on the default branch and feeds the
\* body, or that the file was not found, back as the next turn
CotCat ==
    /\ rpc = "loop" /\ retry < CotRetries /\ is_function_call
    /\ ~JsonLoadsRaises(cot_response)
    /\ cot_response.name = "cat" /\ cot_response.arguments # None
    /\ decoded' = Append(decoded,
                         [was_call |-> LatestIsFunctionCall(messages),
                          form |-> cot_response.form, raised |-> FALSE])
    /\ LET path == cot_response.arguments[1]
           got == GetContents(TRUE, rfiles, path)
           fed == IF got.ok THEN HereIsTheFile(path, got.body)
                            ELSE FileNotFound(path)
       IN \E r \in RetrievalReplies \cup {ProviderError} :
            IF r = ProviderError
            THEN /\ rerror' = "ProviderError" /\ rpc' = "failed"
                 /\ cot_response' = JsonLoads(cot_response)
                 /\ UNCHANGED <<messages, retry, cturns>>
            ELSE /\ messages' = Chat(messages, fed, path, r)
                 /\ cot_response' = r.text
                 /\ retry' = retry + 1 /\ cturns' = cturns + 1
                 /\ UNCHANGED <<rpc, rerror>>
    /\ UNCHANGED <<is_function_call, rfiles, notRetrievalVars>>

\* lines 169-171: a name that is neither finish nor cat; the next iteration
\* finds the decoded call in response
CotOtherTool ==
    /\ rpc = "loop" /\ retry < CotRetries /\ is_function_call
    /\ ~JsonLoadsRaises(cot_response) /\ cot_response.name \notin {"finish", "cat"}
    /\ cot_response' = JsonLoads(cot_response)
    /\ retry' = retry + 1
    /\ decoded' = Append(decoded,
                         [was_call |-> LatestIsFunctionCall(messages),
                          form |-> cot_response.form, raised |-> FALSE])
    /\ UNCHANGED <<messages, is_function_call, rpc, rerror, rfiles, cturns,
                   notRetrievalVars>>

\* lines 159 and 189: range(3) is used up
CotCapReached ==
    /\ rpc = "loop" /\ retry = CotRetries
    /\ rpc' = "returned"
    /\ UNCHANGED <<messages, cot_response, is_function_call, retry, rerror, rfiles,
                   decoded, cturns, notRetrievalVars>>

RetrievalIdle ==
    /\ rpc = "idle" /\ cot_response = ProseText /\ is_function_call = FALSE
    /\ retry = 0 /\ rerror = "none" /\ decoded = <<>> /\ cturns = 0
    /\ rfiles = [f \in RetrievalPaths |-> NoFile]

\* the session before cot_retrieval: the system prompt
RetrievalHistory == <<Message("system", "system", "system_prompt")>>

RetrievalStart ==
    /\ rpc = "ask" /\ cot_response = ProseText /\ is_function_call = FALSE
    /\ retry = 0 /\ rerror = "none" /\ decoded = <<>> /\ cturns = 0
    /\ rfiles \in [RetrievalPaths -> {NoFile, [sha |-> 1, body |-> ShortBody],
                                       [sha |-> 1, body |-> LongBody]}]

----------------------------------------------------------------------------
(* Properties of the planning stages.                                      *)

PlanReturned == stage \in {"files", "pr"} /\ ppc = "done" /\ planError = "none"

\* C1: when every attempt yields unparseable model text, get_files_to_change
\* and generate_pull_request each end in a stage failure after exactly 5
\* attempts, with exactly 5 chat turns issued
C1_StageFailureAfterFive ==
    (stage \in {"files", "pr"} /\ ppc = "done" /\ replies.unparseable)
        => (planError = "StageFailure" /\ count = 5 /\ chatTurns = 5)

\* the reply of C3: files-to-create "a.py\n*b.py", files-to-modify "None"
ReplyC3 == [files_to_create |-> Section(T_a_nl_star_b),
            files_to_modify |-> Section(T_None)]

RequestA == [filename |-> T_a, instructions |-> <<>>, change_type |-> "create"]
RequestB == [filename |-> T_b, instructions |-> <<>>, change_type |-> "create"]

\* the requests one reply alone gives: one per surviving entry, create first
RequestsOf(r) == AppendRequests(<<>>, ZipEntries(r)).requests

\* C2: whenever get_files_to_change returns, the list is non-empty and holds
\* exactly the requests of the reply of the attempt that returned, nothing
\* of an earlier attempt that ended in a ParseError
C2_ResultIsLastReplyOnly ==
    (stage = "files" /\ PlanReturned)
        => (planResult # <<>> /\ planResult = RequestsOf(replies.last))

\* C3 as stated: the reply ReplyC3 gives exactly one request, (a.py, create)
C3_OnlyAPy ==
    (stage = "files" /\ PlanReturned /\ replies.last = ReplyC3)
        => planResult = <<RequestA>>

\* C3 as amended: the reply ReplyC3 contributes (a.py, create) and then
\* (b.py, create), which end the returned list and are all of it when the
\* reply is the first attempt's; only the literal "None" is discarded
C3_APyAndBPy ==
    (stage = "files" /\ PlanReturned /\ replies.last = ReplyC3)
        => /\ Len(planResult) >= 2
           /\ SubSeq(planResult, Len(planResult) - 1, Len(planResult))
                 = <<RequestA, RequestB>>
           /\ (count = 0 => planResult = <<RequestA, RequestB>>)

C3_Witness ==
    /\ stage = "files" /\ PlanReturned /\ replies.last = ReplyC3
    /\ count = 0 /\ chatTurns = 1 /\ planResult = <<RequestA, RequestB>>


\* the turns get_files_to_change appended and has not removed, and the rest
PlanningTurns == SelectSeq(messages, LAMBDA m : m.key = "files_to_change")
OtherTurns == SelectSeq(messages, LAMBDA m : m.key # "files_to_change")

\* get_files_to_change is about to start an attempt, or to fail after the
\* fifth, or has failed so
BetweenAttempts ==
    /\ stage = "files"
    /\ ppc = "run" \/ planError = "StageFailure"

\* the attempt before ended in a ParseError
LastRaised ==
    \/ ~FilesToChangeParses(replies.last)
    \/ AppendRequests(<<>>, ZipEntries(replies.last)).raised

\* C23 as stated: whenever get_files_to_change starts a new attempt or fails
\* after its 5th, the chat history holds no files_to_change turn of an
\* earlier unsuccessful attempt, whether it ended in a ParseError or parsed
\* to zero surviving requests, and turns with other keys are never removed
C23_NoTurnLeftOver ==
    BetweenAttempts => (PlanningTurns = <<>> /\ OtherTurns = history0)

\* C23 as amended: between attempts the history holds no files_to_change
\* turn when the attempt before ended in a ParseError; an attempt that
\* parsed to zero surviving requests leaves its user+assistant pair as the
\* last two turns; the turns with other keys stay, in place, throughout
C23_ParseErrorDiscardsTurns ==
    /\ stage = "files" =>
          /\ OtherTurns = history0
          /\ SubSeq(messages, 1, Len(history0)) = history0
    /\ (BetweenAttempts /\ count = 0) => PlanningTurns = <<>>
    /\ (BetweenAttempts /\ count > 0 /\ LastRaised) => PlanningTurns = <<>>
    /\ (BetweenAttempts /\ count > 0 /\ ~LastRaised) =>
          /\ Len(PlanningTurns) \in {2 * k : k \in 1..count}
          /\ SubSeq(messages, Len(messages) - 1, Len(messages)) =
                <<[role |-> "user", key |-> "files_to_change",
                   content |-> "files_to_change_prompt"],
                  [role |-> "assistant", key |-> "files_to_change",
                   content |-> replies.last]>>

\* three attempts failed from a history of three turns: the second ended in
\* a ParseError and discarded the pair of the first, the third parsed to no
\* surviving request and its pair is still there as the fourth starts
C23_Witness ==
    /\ BetweenAttempts /\ ppc = "run" /\ count = 3 /\ ~LastRaised
    /\ Len(history0) = 3 /\ Len(PlanningTurns) = 2 /\ Len(messages) = 5


----------------------------------------------------------------------------
(* Properties of create_branch.                                            *)

FreeSuffixes(rs) == {n \in 1..(MaxSuffix - 1) : rs[n] = 0}

\* C4: create_branch(name) when the ref for name exists (and a suffix among
\* _1.._99 is free) does not raise; it returns name with the lowest free
\* suffix, the ref it creates points at the default branch tip, and every
\* ref that existed before the call is unchanged
C4_LowestFreeSuffix ==
    \A c \in callers :
        (refs0[0] # 0 /\ FreeSuffixes(refs0) # {}) =>
            /\ bpc[c] # "raised"
            /\ \A n \in Suffixes : refs0[n] # 0 => refs[n] = refs0[n]
            /\ bpc[c] = "returned" =>
                 /\ bret[c] \in FreeSuffixes(refs0)
                 /\ \A n \in FreeSuffixes(refs0) : bret[c] <= n
                 /\ refs[bret[c]] = tip
                 /\ \A n \in Suffixes : n # bret[c] => refs[n] = refs0[n]

C4_Witness ==
    \E c \in callers :
        /\ bpc[c] = "returned" /\ refs0[0] # 0 /\ bret[c] = 3
        /\ refs0[4] # 0 /\ refs[3] = tip /\ refs0[1] # tip

\* caller c has a step of create_branch to take
CanStep(c) ==
    ENABLED (GetBranch(c) \/ CreateBare(c) \/ RetrySuffix(c) \/ Reraise(c))

Finished(c) == bpc[c] \in {"returned", "raised"}

\* the names (suffix 0: the bare name) free before the calls
FreeNames == {n \in Suffixes : refs0[n] = 0}

\* C15: when several callers run create_branch with the same name
\* concurrently (ref creation atomic, an existing ref rejected, a free name
\* for each caller), every call returns and no two return the same name; a
\* call gets the bare name only if it registers before any other, and when
\* the bare name was free each later call gets a numbered suffix of its own
C15_DistinctBranchNames ==
    /\ \A c \in callers, d \in callers :
          (c # d /\ bpc[c] = "returned" /\ bpc[d] = "returned")
              => bret[c] # bret[d]
    /\ \A c \in callers :
          bpc[c] = "returned" =>
              /\ bret[c] \in FreeNames /\ refs[bret[c]] = base[c]
              /\ btried[c][Len(btried[c])] = bret[c]
    /\ Cardinality(FreeNames) >= Cardinality(callers) =>
          \A c \in callers :
              /\ bpc[c] # "raised"
              /\ ~Finished(c) => CanStep(c)
              /\ battempts[c] <= MaxSuffix
    /\ (0 \in FreeNames /\ \E c \in callers : Len(btried[c]) > 0) =>
          /\ Cardinality({c \in callers : bpc[c] = "returned" /\ bret[c] = 0}) = 1
          /\ \A c \in callers :
                (bpc[c] = "returned" /\ bret[c] # 0) => bret[c] \in 1..(MaxSuffix - 1)

\* every caller has returned: one with the bare name, the other with _1
C15_Witness ==
    /\ Cardinality(callers) >= 2 /\ refs0[0] = 0 /\ refs0[1] = 0
    /\ \A c \in callers : bpc[c] = "returned"
    /\ \E c \in callers, d \in callers :
          bret[c] = 0 /\ bret[d] = 1 /\ Len(btried[d]) = 2

\* the bare name and every numbered suffix existed before the call
AllTaken == \A n \in Suffixes : refs0[n] # 0

\* C16: create_branch(name) when the bare name and all of name_1..name_99
\* exist makes exactly 100 ref-creation attempts, the bare name and then the
\* suffixes 1 to 99 in increasing order, creates no ref, and raises the
\* error of the first (bare-name) attempt
C16_ReraisesFirstError ==
    \A c \in callers :
        AllTaken =>
            /\ bpc[c] # "returned" /\ refs = refs0
            /\ \A k \in 1..Len(btried[c]) : btried[c][k] = k - 1
            /\ bpc[c] = "raised" =>
                  /\ battempts[c] = 100 /\ Len(btried[c]) = 100
                  /\ berr[c] = 0

C16_Witness ==
    \E c \in callers :
        /\ AllTaken /\ bpc[c] = "raised" /\ battempts[c] = 100
        /\ btried[c][100] = 99 /\ berr[c] = 0 /\ refs = refs0

----------------------------------------------------------------------------
(* Properties of change_files_in_github.                                   *)

CallsOf(i) == SelectSeq(calls, LAMBDA c : c.req = i)
AuthoredOf(i) == SelectSeq(authored, LAMBDA a : a.req = i)
OpsOf(i) == [k \in 1..Len(CallsOf(i)) |-> CallsOf(i)[k].op]

\* request i has been processed to its end and the loop has moved on
Processed(i) == i \in 1..Len(requests) /\ i < idx

\* C5: for a create request whose file already exists on the branch, the
\* forge calls are create-file (rejected), fetch-existing-file, update-file,
\* in that order, and the content committed is the code of the one
\* create_file authoring
C5_CreateThenUpdate ==
    \A i \in 1..Len(requests) :
        (Processed(i) /\ requests0[i].change_type = "create" /\ existed[i]) =>
            /\ Len(AuthoredOf(i)) = 1 /\ AuthoredOf(i)[1].by = "create_file"
            /\ OpsOf(i) = <<"create_file", "get_file", "update_file">>
            /\ ~CallsOf(i)[1].ok /\ CallsOf(i)[2].ok /\ CallsOf(i)[3].ok
            /\ CallsOf(i)[3].body = AuthoredOf(i)[1].code
            /\ (i = idx - 1 /\ cpc = "next") =>
                 branchFiles[requests[i].filename].body = AuthoredOf(i)[1].code

C5_Witness ==
    /\ cpc = "next" /\ idx = 2 /\ requests0[1].change_type = "create"
    /\ existed[1] /\ Len(file_change_paths) >= 2
    /\ OpsOf(1) = <<"create_file", "get_file", "update_file">>
    /\ branchFiles[requests[1].filename].body = "new2"

\* C6: for a modify request whose file is not on the branch, the request's
\* kind is set to create in place and the only forge write made for it is a
\* file creation, never an update
C6_ModifyBecomesCreate ==
    \A i \in 1..Len(requests) :
        (requests0[i].change_type = "modify" /\ i <= Len(existed) /\ ~existed[i]
         /\ CallsOf(i) # <<>>) =>
            /\ requests[i].change_type = "create"
            /\ requests[i].filename = requests0[i].filename
            /\ \A k \in 1..Len(OpsOf(i)) : OpsOf(i)[k] \in {"get_file", "create_file"}
            /\ Processed(i) =>
                 /\ OpsOf(i) = <<"get_file", "create_file">>
                 /\ ~CallsOf(i)[1].ok /\ CallsOf(i)[2].ok
                 /\ (i = idx - 1 /\ cpc = "next") =>
                      branchFiles[requests[i].filename].sha # 0

C6_Witness ==
    /\ cpc = "next" /\ idx = 2 /\ requests0[1].change_type = "modify"
    /\ ~existed[1] /\ requests[1].change_type = "create"
    /\ OpsOf(1) = <<"get_file", "create_file">>
    /\ branchFiles[requests[1].filename].sha # 0

\* the modify request i found its file on the working branch
ModifyOfExisting(i) ==
    /\ i \in 1..Len(existed) /\ requests0[i].change_type = "modify" /\ existed[i]
    /\ CallsOf(i) # <<>>

\* what request i did: the file is fetched once, from the working branch,
\* modify_file authors on the body of that fetch, and the one write is an
\* update
ModifiedFromBranch(i) ==
    /\ \A k \in 1..Len(CallsOf(i)) : CallsOf(i)[k].op # "get_file_default"
    /\ CallsOf(i)[1].op = "get_file" /\ CallsOf(i)[1].ok
    /\ (i = idx /\ cpc \in {"modify_author", "modify_commit"}) =>
          mcontents = CallsOf(i)[1].body /\ contents.body = CallsOf(i)[1].body
    /\ \A k \in 1..Len(AuthoredOf(i)) : AuthoredOf(i)[k].by = "modify_file"
    /\ Processed(i) =>
          /\ OpsOf(i) = <<"get_file", "update_file">>
          /\ CallsOf(i)[2].ok /\ Len(AuthoredOf(i)) = 1
          /\ CallsOf(i)[2].body = AuthoredOf(i)[1].code

\* C17: every modify request whose file is on the working branch, a file
\* with an empty body included, is authored by modify_file on the body
\* fetched from the working branch, with no fetch from the default branch,
\* and committed as an update
C17_ModifyUsesBranchBody ==
    \A i \in 1..Len(requests) : ModifyOfExisting(i) => ModifiedFromBranch(i)

\* the part of C17 that holds: files whose body on the working branch is
\* not empty
C17_NonEmptyUsesBranchBody ==
    \A i \in 1..Len(requests) :
        (ModifyOfExisting(i) /\ CallsOf(i)[1].body # "") => ModifiedFromBranch(i)

\* the update of the modify path is being sent: the step leaves modify_commit
ModifyUpdateStep == cpc = "modify_commit" /\ cpc' # "modify_commit"

\* the revision fetched at line 296 is no longer the file's revision
StaleSha ==
    ~OnBranch(requests[idx].filename)
        \/ branchFiles[requests[idx].filename].sha # contents.sha

\* C18: with another invocation writing to the same file, an update of the
\* modify path whose sha is stale is rejected by the forge and changes
\* nothing, its error leaves change_files_in_github, which makes no further
\* call (no retry); an update that is applied replaces exactly the revision
\* that was fetched
C18_StaleUpdateFails ==
    [][/\ ModifyUpdateStep =>
            IF StaleSha
            THEN /\ branchFiles' = branchFiles
                 /\ cpc' = "failed" /\ cerror' = "GithubException"
                 /\ calls' = Append(calls, Call(idx, "update_file", FALSE,
                                                file_change.code))
            ELSE /\ branchFiles[requests[idx].filename].sha = contents.sha
                 /\ branchFiles'[requests[idx].filename].body = file_change.code
                 /\ cpc' = "next" /\ cerror' = "none"
       /\ cpc = "failed" => (cpc' = "failed" /\ calls' = calls
                               /\ cerror' = cerror /\ authored' = authored)
      ]_vars

\* the other invocation committed between the fetch and the update: the
\* update was rejected, its error left, the other body is on the branch
C18_Witness ==
    /\ cpc = "failed" /\ cerror = "GithubException" /\ otherWrites = 1
    /\ requests0[1].change_type = "modify" /\ existed[1]
    /\ OpsOf(1) = <<"get_file", "update_file">>
    /\ ~CallsOf(1)[2].ok /\ Len(AuthoredOf(1)) = 1
    /\ branchFiles[requests[1].filename].body = TheirBody
    /\ branchFiles[requests[1].filename].sha # contents.sha

\* the forge writes that were applied, in the order made
WritesApplied ==
    SelectSeq(calls, LAMBDA c : c.ok /\ c.op \in {"create_file", "update_file"})

\* those of them made to file f
WritesTo(f) == SelectSeq(WritesApplied, LAMBDA c : requests[c.req].filename = f)

\* request i has a change kind that is neither create nor modify
InvalidKind(i) == requests0[i].change_type \notin {"create", "modify"}

\* C19: change_files_in_github takes the requests in list order and is not
\* atomic: at a request whose kind is neither create nor modify it fails
\* with the invalid-change-type error, no later request is authored or
\* committed, and what was committed for the earlier requests stays on the
\* branch
C19_InvalidKindAborts ==
    /\ \A k \in 1..Len(calls), l \in 1..Len(calls) :
          k <= l => calls[k].req <= calls[l].req
    /\ \A k \in 1..Len(authored), l \in 1..Len(authored) :
          k <= l => authored[k].req <= authored[l].req
    /\ \A i \in 1..Len(requests) :
          InvalidKind(i) =>
              /\ idx <= i
              /\ CallsOf(i) = <<>> /\ AuthoredOf(i) = <<>>
              /\ \A j \in (i + 1)..Len(requests) :
                    CallsOf(j) = <<>> /\ AuthoredOf(j) = <<>>
              /\ Len(existed) >= i =>
                    /\ cpc = "failed" /\ cerror = "InvalidChangeType" /\ idx = i
                    /\ \A k \in 1..Len(WritesApplied) : WritesApplied[k].req < i
                    /\ \A f \in Filenames :
                          WritesTo(f) # <<>> =>
                              branchFiles[f].body = WritesTo(f)[Len(WritesTo(f))].body

\* the first request was committed, the second has an invalid kind
C19_Witness ==
    /\ Len(requests) = 2 /\ InvalidKind(2) /\ ~InvalidKind(1)
    /\ cpc = "failed" /\ cerror = "InvalidChangeType" /\ idx = 2
    /\ Len(WritesApplied) = 1 /\ WritesApplied[1].req = 1
    /\ branchFiles[requests[1].filename].body = WritesApplied[1].body
    /\ branchFiles[requests[1].filename].sha # 0

\* the create request i met a forge error at its commit and its fallback
\* failed as well, at the fetch or at the update
FallbackFailed(i) ==
    /\ i \in 1..Len(requests) /\ requests0[i].change_type = "create"
    /\ Len(CallsOf(i)) >= 2
    /\ CallsOf(i)[1].op = "create_file" /\ ~CallsOf(i)[1].ok
    /\ ~CallsOf(i)[Len(CallsOf(i))].ok
    /\ CallsOf(i)[Len(CallsOf(i))].op \in {"get_file", "update_file"}

\* C20: when committing a create request meets a forge error and the
\* fallback (fetch the file on the branch, then update it) fails too, the
\* failure is swallowed: no error leaves change_files_in_github for that
\* request, nothing is committed for it, and the loop goes on to the next
\* request
C20_FallbackFailureSwallowed ==
    \A i \in 1..Len(requests) :
        FallbackFailed(i) =>
            /\ idx > i
            /\ \A k \in 1..Len(CallsOf(i)) : ~CallsOf(i)[k].ok \/ CallsOf(i)[k].op = "get_file"
            /\ OpsOf(i) \in {<<"create_file", "get_file">>,
                              <<"create_file", "get_file", "update_file">>}
            /\ (cpc = "failed") => (idx <= Len(requests) /\ Len(existed) >= idx)
            /\ (cerror # "none") => cpc = "failed"

\* the update of the fallback was rejected (the other invocation had
\* committed after the fetch), and the next request was then carried out
C20_Witness ==
    /\ Len(requests) = 2 /\ FallbackFailed(1) /\ cpc = "done" /\ cerror = "none"
    /\ OpsOf(1) = <<"create_file", "get_file", "update_file">>
    /\ CallsOf(2) # <<>> /\ otherWrites = 1

\* the fetch of the fallback failed (the working branch is not there), and
\* the next request was then taken up
C20_WitnessFetch ==
    /\ Len(requests) = 2 /\ FallbackFailed(1) /\ cpc = "done" /\ cerror = "none"
    /\ OpsOf(1) = <<"create_file", "get_file">> /\ CallsOf(2) # <<>>

\* C13: every FileChange returned by create_file or modify_file, on
\* whichever attempt, has the commit message "sweep: " followed by exactly
\* the first 50 characters of the message the model wrote, so at most 57
\* characters
C13_CommitMessageCut ==
    /\ \A k \in 1..Len(authored) :
          LET a == authored[k]
              kept == IF Len(a.said) <= 50 THEN a.said ELSE SubSeq(a.said, 1, 50)
          IN /\ a.commit_message = <<"s","w","e","e","p",":"," ">> \o kept
             /\ Len(a.commit_message) <= 57
    /\ authored # <<>> =>
          file_change.commit_message = authored[Len(authored)].commit_message

\* both methods have returned a message of 80 characters cut to 57, one of
\* them on its third attempt, and a short message kept whole
C13_Witness ==
    /\ \E k \in 1..Len(authored) :
          /\ authored[k].by = "modify_file" /\ authored[k].attempt = 3
          /\ Len(authored[k].said) = 80 /\ Len(authored[k].commit_message) = 57
    /\ \E k \in 1..Len(authored) :
          /\ authored[k].by = "create_file"
          /\ Len(authored[k].said) = 3 /\ Len(authored[k].commit_message) = 10

\* the positions inside a create_file or modify_file call
Authoring == cpc \in CreateFilePcs \cup {"modify_author"}

\* history b followed by exactly one user turn and one assistant turn
OnePairAfter(b, a) ==
    /\ Len(a) = Len(b) + 2 /\ SubSeq(a, 1, Len(b)) = b
    /\ a[Len(b) + 1].role = "user" /\ a[Len(b) + 2].role = "assistant"

\* C21: create_file and modify_file issue at most 5 authoring turns and
\* undo every failed attempt before the next one: a call that succeeds on
\* attempt k (1..5) leaves the chat history it found plus exactly one
\* user+assistant pair, and a call whose 5 attempts all fail raises with
\* the chat history as it found it
C21_AuthoringUndoesFailures ==
    /\ acount \in 0..5
    /\ Authoring => messages = messages0
    /\ \A k \in 1..Len(authored) :
          /\ authored[k].attempt \in 1..5
          /\ OnePairAfter(authored[k].before, authored[k].after)
    /\ cpc \in {"create_commit", "modify_commit", "reclass_commit"} =>
          /\ messages = authored[Len(authored)].after
          /\ OnePairAfter(messages0, messages)
    /\ cerror = "AuthorFailure" =>
          /\ cpc = "failed" /\ acount = 5 /\ messages = messages0

\* the first request was authored on the fifth attempt, after four undone
\* ones, and the call for the second request failed five times and raised:
\* ten turns were issued and one pair was kept
C21_Witness ==
    /\ Len(authored) = 1 /\ authored[1].req = 1 /\ authored[1].attempt = 5
    /\ authored[1].before = AuthoringHistory
    /\ idx = 2 /\ cerror = "AuthorFailure" /\ Len(file_change_paths) = 10
    /\ Len(messages) = Len(AuthoringHistory) + 2

----------------------------------------------------------------------------
(* Properties of cot_retrieval.                                            *)

\* the assistant turns of the call that another turn follows
FollowedReplies ==
    {i \in (Len(RetrievalHistory) + 2)..(Len(messages) - 1) :
        messages[i].role = "assistant"}

\* what a cat of the path is to feed back
CatResult(path) ==
    IF rfiles[path].sha # 0
    THEN [prompt |-> "Here is the file", path |-> path,
          content |-> IF Len(rfiles[path].body) <= 10000 THEN rfiles[path].body
                      ELSE SubSeq(rfiles[path].body, 1, 10000)]
    ELSE [prompt |-> "File not found", path |-> path, content |-> <<>>]

\* every turn after the first answers a reply that reads as a cat of a
\* path, with the result of that cat under the path as key
CatsFedBack ==
    \A i \in FollowedReplies :
        LET call == messages[i].content.text IN
        /\ call.json /\ call.name = "cat" /\ call.arguments # None
        /\ messages[i + 1] =
             [role |-> "user", key |-> call.arguments[1],
              content |-> CatResult(call.arguments[1])]

\* at most 3 iterations and 4 chat turns
CotBounded ==
    /\ retry \in 0..3 /\ cturns \in 0..4
    /\ Len(messages) <= Len(RetrievalHistory) + 2 * 4
    /\ Len(decoded) <= 3

\* C22: cot_retrieval loops only while the latest model reply is a tool
\* call: a reply is decoded as a tool call only if that reply itself is
\* one, no turn follows a plain-text reply or a finish, each cat feeds its
\* result (the body cut to 10,000 characters, or file not found) back as
\* the next turn, and there are at most 3 iterations and 4 chat turns
C22_LoopsWhileLatestIsToolCall ==
    /\ \A k \in 1..Len(decoded) : decoded[k].was_call
    /\ \A i \in FollowedReplies : messages[i].content.is_function_call
    /\ CatsFedBack
    /\ CotBounded

\* the part of C22 that does not depend on which reply the mark was read
\* from: the feeding back of each cat and the bounds
C22_FedBackAndBounded == CatsFedBack /\ CotBounded

\* three cats were answered, the long body cut to 10,000 characters and a
\* missing file reported, and the cap ended the loop after the fourth turn
C22_WitnessCap ==
    /\ rpc = "returned" /\ retry = 3 /\ cturns = 4 /\ Len(decoded) = 3
    /\ \E i \in FollowedReplies :
          /\ messages[i + 1].content.prompt = "Here is the file"
          /\ Len(messages[i + 1].content.content) = 10000
    /\ \E i \in FollowedReplies :
          messages[i + 1].content.prompt = "File not found"

----------------------------------------------------------------------------
(* Properties of the webhook gateway.                                      *)

Received(event, action) ==
    hreq.event = Some(event) /\ hreq.action = action /\ hreq.json_ok /\ hreq.valid

\* the issue of the payload carries a label whose lowercased name is sweep
CarriesSweepLabel ==
    hreq.issue # None /\ \E l \in hreq.issue[1].labels : Lower(l) = T_sweep

JobsOfKind(kind) == SelectSeq(spawned, LAMBDA j : j.job = kind)

\* C7: an issues/labeled webhook whose issue carries a label whose lowercased
\* name is sweep dispatches exactly one job, a ticket handling, whose issue
\* body and repository description are never missing (absent values are
\* passed as empty strings)
C7_LabeledDispatchesOneTicket ==
    (Received("issues", Some("labeled")) /\ CarriesSweepLabel) =>
        /\ Len(spawned) = 1
        /\ spawned[1].job = "handle_ticket"
        /\ spawned[1].body # None /\ spawned[1].repo_description # None
        /\ spawned[1].body =
             (IF hreq.issue[1].body = None THEN Some("") ELSE hreq.issue[1].body)
        /\ spawned[1].repo_description =
             (IF hreq.description = None THEN Some("") ELSE hreq.description)

C7_Witness ==
    /\ Received("issues", Some("labeled"))
    /\ hreq.issue # None /\ hreq.issue[1].labels = {T_bug, T_Sweep}
    /\ hreq.issue[1].body = None /\ hreq.description = None
    /\ Len(spawned) = 1 /\ spawned[1].body = Some("")
    /\ spawned[1].repo_description = Some("")

\* C8: an issue_comment/created webhook whose issue carries the sweep label
\* dispatches a ticket handling with the comment id when the comment
\* author's account type is "User", and no ticket handling otherwise
C8_CommentTicketOnlyForUsers ==
    (Received("issue_comment", Some("created")) /\ CarriesSweepLabel) =>
        IF hreq.comment.type = "User"
        THEN /\ Len(JobsOfKind("handle_ticket")) = 1
             /\ JobsOfKind("handle_ticket")[1].comment_id = Some(hreq.comment.id)
             /\ JobsOfKind("handle_ticket")[1].number = hreq.issue[1].number
        ELSE JobsOfKind("handle_ticket") = <<>>

C8_Witness ==
    /\ Received("issue_comment", Some("created")) /\ CarriesSweepLabel
    /\ hreq.comment.type = "User"
    /\ Len(spawned) = 1 /\ spawned[1].job = "handle_ticket"
    /\ spawned[1].comment_id = Some(41)

C8_WitnessBot ==
    /\ Received("issue_comment", Some("created")) /\ CarriesSweepLabel
    /\ hreq.comment.type = "Bot" /\ JobsOfKind("handle_ticket") = <<>>
    /\ response = OK200

\* the issue of the payload is a pull request authored by the bot's login
OnOwnPullRequest ==
    /\ hreq.issue # None
    /\ hreq.issue[1].pull_request # None
    /\ hreq.issue[1].login = SWEEP_LOGIN

PathlessCommentJob(j) ==
    j.job = "handle_comment" /\ j.pr_path = None /\ j.pr_line_position = None

\* C9 as stated: every issue_comment/created webhook on a pull request of
\* the bot's own login dispatches a comment handling with no file path and
\* no line position, whatever the labels and the commenter's account type
C9_AlwaysCommentJob ==
    (Received("issue_comment", Some("created")) /\ OnOwnPullRequest) =>
        \E k \in 1..Len(spawned) : PathlessCommentJob(spawned[k])

\* C9 as amended: such a webhook dispatches exactly one job; it is a comment
\* handling with no file path and no line position, for the pull request's
\* number, unless the issue carries the sweep label and the commenter's
\* account type is "User": then it is a ticket handling and no comment
\* handling is dispatched
C9_CommentJobUnlessTicket ==
    (Received("issue_comment", Some("created")) /\ OnOwnPullRequest) =>
        /\ Len(spawned) = 1
        /\ IF CarriesSweepLabel /\ hreq.comment.type = "User"
           THEN spawned[1].job = "handle_ticket"
           ELSE /\ PathlessCommentJob(spawned[1])
                /\ spawned[1].pr_number = hreq.issue[1].number
                /\ spawned[1].comment = hreq.comment.body

C9_Witness ==
    /\ Received("issue_comment", Some("created")) /\ OnOwnPullRequest
    /\ CarriesSweepLabel /\ hreq.comment.type = "Bot"
    /\ Len(spawned) = 1 /\ PathlessCommentJob(spawned[1])

\* the payload has every part the matched rule reads
WellFormed ==
    /\ hreq.json_ok /\ hreq.valid /\ hreq.event # None
    /\ hreq.event[1] \in {"issues", "issue_comment"} => hreq.issue # None
    /\ hreq.event[1] = "pull_request" => hreq.base_merged # None
    /\ (hreq.event[1] = "push"
        \/ (hreq.event[1] = "pull_request" /\ hreq.base_merged = Some(TRUE)))
          => hreq.full_name # None /\ hreq.installation_id # None

\* C10: every webhook whose (event, action) pair is in the routing table
\* and whose body parses is answered {"success": true}, except ping, which
\* is answered {"message": "pong"} and dispatches no background work
C10_HandledPairsSucceed ==
    (/\ response.status # 0 /\ hreq.event # None
     /\ <<hreq.event[1], hreq.action>> \in RoutingTable
     /\ WellFormed) =>
        IF hreq.event[1] = "ping"
        THEN response = Pong /\ spawned = <<>>
        ELSE response = OK200

\* the part of C10 the gateway keeps: every pair of the table but
\* pull_request_review/submitted
C10_OtherPairsSucceed ==
    (/\ response.status # 0 /\ hreq.event # None
     /\ <<hreq.event[1], hreq.action>> \in RoutingTable
     /\ WellFormed
     /\ hreq.event[1] # "pull_request_review") =>
        IF hreq.event[1] = "ping"
        THEN response = Pong /\ spawned = <<>>
        ELSE response = OK200

\* the (event, action) pair of the webhook has no arm in the routing table
Unrecognized == <<hreq.event[1], hreq.action>> \notin RoutingTable

\* C11: a webhook (JSON body, event header present) is answered HTTP 422
\* exactly when its (event, action) pair is unrecognized or its body does not
\* parse into the schema of the matched pair, and then no background work
\* has been dispatched
C11_Status422Iff ==
    (response.status # 0 /\ hreq.json_ok /\ hreq.event # None) =>
        /\ (response.status = 422) <=> (Unrecognized \/ ~hreq.valid)
        /\ (response.status = 422) => spawned = <<>>

\* the part of C11 the gateway keeps: every pair but
\* pull_request_review/submitted
C11_Status422IffOtherPairs ==
    (/\ response.status # 0 /\ hreq.json_ok /\ hreq.event # None
     /\ hreq.event[1] # "pull_request_review") =>
        /\ (response.status = 422) <=> (Unrecognized \/ ~hreq.valid)
        /\ (response.status = 422) => spawned = <<>>

\* the title starts with sweep or contains sweep:, in any letter case
AsksInAnyCase(title) ==
    \/ Len(title) >= 5 /\ Lower(SubSeq(title, 1, 5)) = T_sweep
    \/ \E k \in 1..Len(title) :
          k + 5 <= Len(title) /\ Lower(SubSeq(title, k, k + 5)) = T_sweep \o <<":">>

\* C12: every issues/opened webhook whose title starts with sweep or
\* contains sweep: (any letter case) leaves the sweep label on the
\* repository and on that issue; a label that was there already is not
\* created again, and no other label of the repository or of any issue
\* changes; this holds at every step of any sequence of webhooks
C12_OpenedEnsuresLabel ==
    [][(/\ hreq'.event = Some("issues") /\ hreq'.action = Some("opened")
        /\ hreq'.json_ok /\ hreq'.valid /\ hreq'.issue # None
        /\ AsksInAnyCase(hreq'.issue[1].title)) =>
           /\ response' = OK200
           /\ repoLabels' = repoLabels \cup {LABEL_NAME}
           /\ issueLabels' = [issueLabels EXCEPT ![hreq'.issue[1].number] =
                                                     @ \cup {LABEL_NAME}]
           /\ labelCreates' = (IF LABEL_NAME \in repoLabels
                               THEN labelCreates ELSE labelCreates + 1)
           /\ labelCreates' <= 1]_vars

\* two such webhooks on one repository: the label was created once, by the
\* first, and both issues carry it; the last title is in capitals
C12_Witness ==
    /\ Received("issues", Some("opened")) /\ hreq.issue # None
    /\ hreq.issue[1].title = <<"a"," ","S","W","E","E","P",":","b">>
    /\ labelCreates = 1 /\ LABEL_NAME \in repoLabels
    /\ \A n \in IssueNumbers : LABEL_NAME \in issueLabels[n]

\* the webhook is one of the two installation events
IsInstallationEvent ==
    hreq.event \in {Some("installation_repositories"), Some("installation")}

\* the repositories an installation payload lists
ListedRepositories ==
    IF hreq.event = Some("installation_repositories")
    THEN hreq.repositories_added ELSE hreq.repositories

\* C14 as stated: every webhook spawns at most one background job
C14_AtMostOneJob == Len(spawned) <= 1

\* C14 as amended: every webhook spawns at most one background job, except
\* the two installation events, which start one full indexing for each
\* repository the payload lists, in the order listed
C14_OneJobOrOnePerRepository ==
    IF response.status # 0 /\ IsInstallationEvent /\ hreq.valid
    THEN /\ Len(spawned) = Len(ListedRepositories)
         /\ \A k \in 1..Len(spawned) :
               /\ spawned[k].job = "index_full_repository"
               /\ spawned[k].repo_full_name = ListedRepositories[k]
    ELSE Len(spawned) <= 1

C14_Witness ==
    /\ Received("installation", Some("created"))
    /\ Len(hreq.repositories) = 2 /\ Len(spawned) = 2
    /\ spawned[1].repo_full_name # spawned[2].repo_full_name

----------------------------------------------------------------------------
(* The specifications, one per component; the other components stay idle.  *)

PlanStart ==
    /\ stage \in {"files", "pr"} /\ ppc = "run" /\ count = 0
    /\ file_change_requests = <<>> /\ planResult = NoValue
    /\ planError = "none" /\ chatTurns = 0
    /\ replies = [last |-> NoReply, unparseable |-> TRUE]
    /\ history0 = messages

InitPlan == messages \in InitialHistories /\ PlanStart /\ BranchIdle /\ CommitIdle /\ HookIdle
    /\ RetrievalIdle

NextPlan ==
    \/ GetFilesAttempt
    \/ GetFilesExhausted
    \/ GeneratePrAttempt
    \/ GeneratePrExhausted

SpecPlan == InitPlan /\ [][NextPlan]_vars

InitBranch == messages = <<>> /\ PlanIdle /\ BranchStart /\ CommitIdle /\ HookIdle
    /\ RetrievalIdle

NextBranch ==
    \E c \in Callers :
        \/ GetBranch(c)
        \/ CreateBare(c)
        \/ RetrySuffix(c)
        \/ Reraise(c)

SpecBranch == InitBranch /\ [][NextBranch]_vars

InitBranchConcurrent ==
    messages = <<>> /\ PlanIdle /\ BranchStartConcurrent /\ CommitIdle /\ HookIdle
    /\ RetrievalIdle

SpecBranchConcurrent == InitBranchConcurrent /\ [][NextBranch]_vars

InitCommit == messages = AuthoringHistory /\ PlanIdle /\ BranchIdle /\ CommitStart /\ HookIdle
    /\ RetrievalIdle

NextCommit ==
    \/ LoopDone
    \/ BeginCreate
    \/ BeginModify
    \/ InvalidChangeType
    \/ CreateFileAttempt
    \/ CreateFileExhausted
    \/ CommitCreate
    \/ FallbackGet
    \/ FallbackUpdate
    \/ ModifyGet
    \/ ModifyFileEnter
    \/ ModifyFileAttempt
    \/ ModifyFileExhausted
    \/ CommitReclass
    \/ CommitModify

SpecCommit == InitCommit /\ [][NextCommit]_vars

InitCommitShared ==
    messages = AuthoringHistory /\ PlanIdle /\ BranchIdle /\ CommitStartShared /\ HookIdle
    /\ RetrievalIdle

NextCommitShared ==
    \/ NextCommit
    \/ OtherWriterCommits

SpecCommitShared == InitCommitShared /\ [][NextCommitShared]_vars

InitWebhook ==
    messages = <<>> /\ PlanIdle /\ BranchIdle /\ CommitIdle /\ HookStart
    /\ RetrievalIdle

NextWebhook ==
    \/ WebhookBroken
    \/ WebhookIssuesOpened
    \/ WebhookIssuesLabeled
    \/ WebhookIssueComment
    \/ WebhookReviewComment
    \/ WebhookReviewSubmitted
    \/ WebhookReposAdded
    \/ WebhookInstallationCreated
    \/ WebhookPushOrClosed
    \/ WebhookPing
    \/ WebhookUnhandled

SpecWebhook == InitWebhook /\ [][NextWebhook]_vars

InitRetrieval ==
    /\ messages = RetrievalHistory
    /\ PlanIdle /\ BranchIdle /\ CommitIdle /\ HookIdle /\ RetrievalStart

NextRetrieval ==
    \/ CotAsk
    \/ CotBreak
    \/ CotDecodeFails
    \/ CotFinish
    \/ CotCat
    \/ CotOtherTool
    \/ CotCapReached

SpecRetrieval == InitRetrieval /\ [][NextRetrieval]_vars

=============================================================================
